---- MODULE Spec2Model ----
(***************************************************************************)
(* Verification model of parts of the kopia repository engine.             *)
(*                                                                         *)
(*   SpecLC : internal/listcache  - the list-cache blob.Storage wrapper    *)
(*   SpecTW : internal/treewalk   - InParallel and its work queue          *)
(*   SpecMT : repo/maintenance    - full maintenance cycles and a stale    *)
(*                                  client                                 *)
(*   SpecDM : repo/maintenance    - full maintenance after a deletion      *)
(*   SpecRU : repo/maintenance    - full maintenance and a snapshot that   *)
(*                                  reuses deleted contents                *)
(*   SpecLS : repo/maintenance    - the maintenance lease                  *)
(*   SpecUL : repo/format         - the upgrade lock on the format blob    *)
(*   SpecCS : repo/blob/cached    - the in-memory caching blob.Storage     *)
(*                                  wrapper                                *)
(*   SpecCC : repo/blob/cached    - the wrapper called from several        *)
(*                                  goroutines                             *)
(*                                                                         *)
(*   SpecSY : cli                 - repository sync-to, copying of blobs   *)
(*   SpecPS : internal/cache      - the packed local cache storage         *)
(*   SpecUS : internal/user       - SetUserProfile on the manifest store   *)
(*   SpecAM : snapshotmaintenance - auto maintenance, tasks may fail       *)
(*   SpecIX : content index       - merged view of the entries of one id   *)
(*   SpecRW : repo/maintenance    - content rewrite workers inside a full  *)
(*                                  maintenance run                        *)
(*   SpecUP : internal/user       - two concurrent SetUserProfile calls    *)
(*   SpecFO : snapshot/restore    - FilesystemOutput                       *)
(*   SpecAMFair : snapshotmaintenance - auto maintenance every 30 minutes  *)
(* Every subsystem has its own variables; a specification steps one        *)
(* subsystem and leaves the variables of the others at their initial       *)
(* values.                                                                 *)
(***************************************************************************)
EXTENDS Integers, Sequences, FiniteSets, TLC

VARIABLES
    lcBase,      \* listcache: ids of the blobs held by the wrapped (base) storage
    lcCache,     \* listcache: cacheStorage, one entry per cached prefix
    lcNow,       \* listcache: the clock read by cacheTimeFunc
    lcCall,      \* listcache: per wrapper, the call in progress and its locals
    lcSeq,       \* listcache: number of updates applied to the base storage
    lcApplied,   \* listcache: per blob id, number of the last update applied to it
    lcRet,       \* listcache: per blob id, newest update whose call has returned
    lcRetPut,    \* listcache: per cached prefix, newest PutBlob that has returned
    lcOps        \* listcache: calls started so far

lcVars == <<lcBase, lcCache, lcNow, lcCall, lcSeq, lcApplied, lcRet, lcRetPut, lcOps>>

VARIABLES
    twPar,       \* treewalk: the parallel argument of InParallel
    twItems,     \* treewalk: the items argument of InParallel
    twFails,     \* treewalk: the items for which ItemFunc returns an error
    twCh,        \* treewalk: q.ch, the buffered channel
    twQueued,    \* treewalk: q.queued
    twActive,    \* treewalk: q.active
    twPc,        \* treewalk: per goroutine, where it is (0 is the caller)
    twStack,     \* treewalk: per goroutine, the ItemFunc invocations it is inside
    twNext,      \* treewalk: index of the next initial item the caller submits
    twEgErr,     \* treewalk: the first error recorded by the errgroup
    twResult,    \* treewalk: the value InParallel returned
    twRuns,      \* treewalk: per item, how often ItemFunc was invoked for it
    twFailed     \* treewalk: items whose ItemFunc invocation returned an error

twVars == <<twPar, twItems, twFails, twCh, twQueued, twActive, twPc, twStack,
            twNext, twEgErr, twResult, twRuns, twFailed>>

VARIABLES
    mtNow,         \* maintenance: the clock, in hours
    mtPc,          \* maintenance: the task the running full maintenance is at
    mtIndex,       \* maintenance: the merged content index of the repository
    mtBlobs,       \* maintenance: per pack blob, whether it exists and its timestamp
    mtNextPack,    \* maintenance: id of the next pack blob to be written
    mtLive,        \* maintenance: contents referenced by snapshot manifests
    mtGcRuns,      \* maintenance: start times of successful snapshot GC runs, newest first
    mtOrphanedAt,  \* maintenance: rewrite-audit log, per pack the time a rewrite orphaned it
    mtClient,      \* maintenance: the in-memory index of a client that does not refresh
    mtRead,        \* maintenance: the client's latest read and its outcome
    mtDroppedFrom, \* maintenance: per content, the pack that stored it when it was dropped
    mtRuns,        \* maintenance: full maintenance runs started so far
    mtPending      \* maintenance: contents a snapshot not yet flushed refers to

mtVars == <<mtNow, mtPc, mtIndex, mtBlobs, mtNextPack, mtLive, mtGcRuns,
            mtOrphanedAt, mtClient, mtRead, mtDroppedFrom, mtRuns, mtPending>>

VARIABLES
    lsNow,         \* lease: the clock
    lsLease,       \* lease: per process, expiry of its flushed lease manifest (0: none)
    lsPc,          \* lease: per process, where its attempt to run maintenance is
    lsStarts       \* lease: attempts started so far

lsVars == <<lsNow, lsLease, lsPc, lsStarts>>

VARIABLES
    ulFormat,      \* upgrade lock: the stored format blob kopia.repository
    ulBackups,     \* upgrade lock: the stored blobs kopia.repository.backup.<owner>
    ulConfig,      \* upgrade lock: m.repoConfig, the manager's copy of the format
    ulValid,       \* upgrade lock: FALSE once the manager's format cache was removed
    ulNow,         \* upgrade lock: the clock that stamps written blobs
    ulCalls,       \* upgrade lock: calls made so far
    ulLast,        \* upgrade lock: what the last call did
    ulPreLock,     \* upgrade lock: the stored format blob before it was last locked
    ulLockBackup   \* upgrade lock: bytes of the backup written when the lock was placed

ulVars == <<ulFormat, ulBackups, ulConfig, ulValid, ulNow, ulCalls, ulLast,
            ulPreLock, ulLockBackup>>

VARIABLES
    csCache,       \* cached storage: s.cache, blob id -> data held in memory
    csBase,        \* cached storage: s.base, blob id -> data in the base storage
    csOps,         \* cached storage: calls made so far
    csLast         \* cached storage: the last call and what it returned

csVars == <<csCache, csBase, csOps, csLast>>

VARIABLES
    ccCache,       \* concurrent wrapper: s.cache[id] of the one blob id in use
    ccBase,        \* concurrent wrapper: the base storage's data for that id
    ccPc,          \* concurrent wrapper: per goroutine, where its call is
    ccArg,         \* concurrent wrapper: per goroutine, the call and its data
    ccCalls        \* concurrent wrapper: calls started so far

ccVars == <<ccCache, ccBase, ccPc, ccArg, ccCalls>>

VARIABLES
    syTodo,        \* sync-to: blobsToCopy not yet sent on copyCh
    syDelTodo,     \* sync-to: blobsToDelete not yet sent on deleteCh
    syClosed,      \* sync-to: copyCh is closed
    syDst,         \* sync-to: blobs in the destination
    syTimed,       \* sync-to: blobs of the destination whose time was set
    syCounted,     \* sync-to: totalCopied, the blobs counted as copied
    syPc,          \* sync-to: per worker, where it is
    syHas,         \* sync-to: per worker, the blob it received
    syCancelled,   \* sync-to: the errgroup's context is cancelled
    syNotices,     \* sync-to: times the "does not support setting time" notice was logged
    syResult,      \* sync-to: "start", "running", or what the command returned
    syCfg,         \* sync-to: the flags, the destination's SetTime and format blob as found,
                   \*          blobs missing in the source
    syDstFormat    \* sync-to: the bytes of the destination's format blob

syVars == <<syTodo, syDelTodo, syClosed, syDst, syTimed, syCounted, syPc, syHas, syCancelled, syNotices, syResult, syCfg, syDstFormat>>

VARIABLES
    psOpen,        \* packed cache: a PackedStorage is open on the directory
    psIndex,       \* packed cache: ps.index, blob id -> pack entry
    psPacks,       \* packed cache: the pack files of the directory, pack id -> bytes
    psIndexFile,   \* packed cache: the file index.v2 of the directory
    psCurrent,     \* packed cache: ps.currentPackID (NoPackID: no pack is open)
    psPut,         \* packed cache: the bytes last put under each id not deleted since
    psBefore,      \* packed cache: psPut at the last Close
    psOps,         \* packed cache: calls made so far
    psLast         \* packed cache: the last call and what it returned

psVars == <<psOpen, psIndex, psPacks, psIndexFile, psCurrent, psPut, psBefore, psOps, psLast>>

VARIABLES
    usManifests,   \* user profiles: the user manifests of the repository
    usPc,          \* user profiles: where the SetUserProfile call is
    usUser,        \* user profiles: p.Username of the call
    usFound,       \* user profiles: ids of the manifests the call found
    usNew,         \* user profiles: id of the manifest the call wrote
    usHad,         \* user profiles: the username had a profile when the call began
    usNextID,      \* user profiles: the next manifest id the store hands out
    usCalls,       \* user profiles: calls made so far
    usResult       \* user profiles: what the last call returned

usVars == <<usManifests, usPc, usUser, usFound, usNew, usHad, usNextID, usCalls, usResult>>

VARIABLES
    amNow,         \* auto maintenance: the clock, in units of 30 minutes
    amPc,          \* auto maintenance: "advance" the clock or "run" maintenance
    amRuns,        \* auto maintenance: schedule, end of the last run of each task
    amBroken,      \* auto maintenance: the tasks that can fail in this repository
    amMode,        \* auto maintenance: mode the last run resolved to
    amExecuted,    \* auto maintenance: tasks the last run executed
    amResult       \* auto maintenance: what the last run returned

amVars == <<amNow, amPc, amRuns, amBroken, amMode, amExecuted, amResult>>

VARIABLES
    ixSeen,        \* content index: the entries for the content id each session has observed
    ixFirst,       \* content index: the entry each session observed first
    ixBest         \* content index: the merged entry of each session

ixVars == <<ixSeen, ixFirst, ixBest>>

VARIABLES
    rwTodo,        \* content rewrite: contents listed for rewriting and not yet processed
    rwBad          \* content rewrite: a worker read a pack blob that does not exist

rwVars == <<rwTodo, rwBad>>

VARIABLES
    upManifests,   \* concurrent profiles: ids of the user manifests of the username
    upPc,          \* concurrent profiles: per caller, where its SetUserProfile is
    upFound,       \* concurrent profiles: per caller, the manifests found and not yet deleted
    upNew,         \* concurrent profiles: per caller, the id its PutManifest returned
    upNextID       \* concurrent profiles: the id the next PutManifest gives

upVars == <<upManifests, upPc, upFound, upNew, upNextID>>

VARIABLES
    foFs,          \* restore output: what is at each name of the target file system
    foRestored,    \* restore output: per file, the content a successful WriteFile restored
    foLast,        \* restore output: the last call and its result
    foOps,         \* restore output: calls made so far
    foCfg          \* restore output: OverwriteFiles, OverwriteDirectories

foVars == <<foFs, foRestored, foLast, foOps, foCfg>>

vars == <<lcVars, twVars, mtVars, lsVars, ulVars, csVars, ccVars, syVars, psVars, usVars, amVars, ixVars, rwVars, upVars, foVars>>

----------------------------------------------------------------------------
(* internal/listcache/listcache.go                                         *)

MaxTime == 1
MaxOps == 3

\* cacheDuration of the wrappers (NewWrapper's duration argument), in ticks.
CacheDuration == 1

Wrappers == {"A", "B"}

\* s.prefixes, in the order NewWrapper received them.
Prefixes == << <<"n">>, <<"m">> >>

\* hmacSecret of the wrappers, and a secret some other repository used.
HmacSecret == "k1"
ForeignSecret == "k0"

\* Blob ids are strings, modelled as sequences of characters.
BlobIDs == { <<"n", "1">>, <<"p", "1">> }

\* Prefixes ListBlobs is called with.
ListPrefixes == { <<"n">>, <<"p">> }

NoEntry == [present |-> FALSE]

\* strings.HasPrefix
HasPrefix(s, p) == Len(p) <= Len(s) /\ SubSeq(s, 1, Len(p)) = p

\* isCachedPrefix: the prefix equals one of s.prefixes.
isCachedPrefix(prefix) == \E i \in 1..Len(Prefixes) : Prefixes[i] = prefix

CachedPrefixSet == { Prefixes[i] : i \in 1..Len(Prefixes) }

\* blob.ListAllBlobs on the base storage.
ListAllBlobs(st, prefix) == { id \in st : HasPrefix(id, prefix) }

\* hmac.Append: the payload followed by its keyed digest.
HmacAppend(data, secret) == [present |-> TRUE, data |-> data, mac |-> <<secret, data>>]

\* hmac.VerifyAndStrip succeeds when the digest matches the payload and secret.
HmacVerifies(entry, secret) == entry.mac = <<secret, entry.data>>

\* The cachedList persisted by ListBlobs on a cache miss.
NewCachedList(now, all, asOf) ==
    [expireAfter |-> now + CacheDuration, blobs |-> all, asOf |-> asOf, stamped |-> now]

\* Mutation: the expiry test accepts the instant of expiry itself.
NotExpired_Inclusive(now, expireAfter) == now <= expireAfter

\* readBlobsFromCache's expiry test: cacheTimeFunc().Before(cl.ExpireAfter).
NotExpired(now, expireAfter) == now < expireAfter

\* readBlobsFromCache: the cached list, or nil (FALSE) when the entry is
\* missing, fails verification or has expired.
CacheHit(entry, now) ==
    /\ entry.present
    /\ HmacVerifies(entry, HmacSecret)
    /\ NotExpired(now, entry.data.expireAfter)

Idle == [pc |-> "idle"]

OthersIdle(w) == \A v \in Wrappers \ {w} : lcCall[v].pc = "idle"

LcInit ==
    /\ lcBase \in { {}, { <<"n", "1">> } }
    /\ lcCache \in { [p \in CachedPrefixSet |-> NoEntry],
                     [p \in CachedPrefixSet |->
                        IF p = <<"n">>
                        THEN HmacAppend(NewCachedList(0, {}, 0), ForeignSecret)
                        ELSE NoEntry] }
    /\ lcNow = 0
    /\ lcCall = [w \in Wrappers |-> Idle]
    /\ lcSeq = 0
    /\ lcApplied = [id \in BlobIDs |-> 0]
    /\ lcRet = [id \in BlobIDs |-> 0]
    /\ lcRetPut = [p \in CachedPrefixSet |-> 0]
    /\ lcOps = 0

Max2(a, b) == IF a >= b THEN a ELSE b

\* Ids under the prefix whose newest applied update has already returned to
\* its caller, split by what that update left in the base storage.
Settled(prefix) ==
    { id \in BlobIDs : HasPrefix(id, prefix) /\ lcApplied[id] > 0 /\ lcRet[id] = lcApplied[id] }

\* ListBlobs, up to and including readBlobsFromCache (lines 78-84).
LcListBlobs(w, prefix) ==
    /\ lcCall[w].pc = "idle"
    /\ lcOps < MaxOps
    /\ lcOps' = lcOps + 1
    /\ LET base == [ pc |-> "dispatch", prefix |-> prefix, cachedPath |-> isCachedPrefix(prefix),
                     hit |-> FALSE, blobs |-> {}, asOf |-> lcSeq, readAt |-> lcNow,
                     startSeq |-> lcSeq,
                     seen |-> NoEntry, quiet |-> OthersIdle(w),
                     mustHave |-> { id \in Settled(prefix) : id \in lcBase },
                     mustNot |-> { id \in Settled(prefix) : id \notin lcBase },
                     startApplied |-> lcApplied,
                     needPut |-> IF isCachedPrefix(prefix) THEN lcRetPut[prefix] ELSE 0 ]
       IN  IF ~isCachedPrefix(prefix)
           THEN lcCall' = [lcCall EXCEPT ![w] =
                    [base EXCEPT !.blobs = ListAllBlobs(lcBase, prefix)]]
           ELSE IF CacheHit(lcCache[prefix], lcNow)
           THEN lcCall' = [lcCall EXCEPT ![w] =
                    [base EXCEPT !.hit = TRUE,
                                 !.seen = lcCache[prefix],
                                 !.blobs = lcCache[prefix].data.blobs,
                                 !.asOf = lcCache[prefix].data.asOf]]
           ELSE lcCall' = [lcCall EXCEPT ![w] =
                    [base EXCEPT !.pc = "listbase", !.seen = lcCache[prefix]]]
    /\ UNCHANGED <<lcBase, lcCache, lcNow, lcSeq, lcApplied, lcRet, lcRetPut>>

\* ListBlobs line 85: blob.ListAllBlobs(ctx, s.Storage, prefix).
LcListBase(w) ==
    /\ lcCall[w].pc = "listbase"
    /\ lcCall' = [lcCall EXCEPT ![w] =
            [@ EXCEPT !.pc = "stamp",
                      !.blobs = ListAllBlobs(lcBase, lcCall[w].prefix),
                      !.asOf = lcSeq]]
    /\ UNCHANGED <<lcBase, lcCache, lcNow, lcSeq, lcApplied, lcRet, lcRetPut, lcOps>>

\* ListBlobs lines 91-94: the cachedList with ExpireAfter = now + cacheDuration.
LcStamp(w) ==
    /\ lcCall[w].pc = "stamp"
    /\ lcCall' = [lcCall EXCEPT ![w] =
            [pc |-> "save", cached |-> NewCachedList(lcNow, lcCall[w].blobs, lcCall[w].asOf),
             call |-> lcCall[w]]]
    /\ UNCHANGED <<lcBase, lcCache, lcNow, lcSeq, lcApplied, lcRet, lcRetPut, lcOps>>

\* saveListToCache: cacheStorage.PutBlob(prefix, hmac.Append(json, secret)).
LcSave(w) ==
    /\ lcCall[w].pc = "save"
    /\ lcCache' = [lcCache EXCEPT ![lcCall[w].call.prefix] =
            HmacAppend(lcCall[w].cached, HmacSecret)]
    /\ lcCall' = [lcCall EXCEPT ![w] = [lcCall[w].call EXCEPT !.pc = "dispatch"]]
    /\ UNCHANGED <<lcBase, lcNow, lcSeq, lcApplied, lcRet, lcRetPut, lcOps>>

\* ListBlobs lines 100-106: the callbacks receive cached.Blobs; the call returns.
LcDispatch(w) ==
    /\ lcCall[w].pc = "dispatch"
    /\ lcCall' = [lcCall EXCEPT ![w] = Idle]
    /\ UNCHANGED <<lcBase, lcCache, lcNow, lcSeq, lcApplied, lcRet, lcRetPut, lcOps>>

\* PutBlob line 111: s.Storage.PutBlob.
LcPutBlob(w, id) ==
    /\ lcCall[w].pc = "idle"
    /\ lcOps < MaxOps
    /\ lcOps' = lcOps + 1
    /\ lcBase' = lcBase \cup {id}
    /\ lcSeq' = lcSeq + 1
    /\ lcApplied' = [lcApplied EXCEPT ![id] = lcSeq + 1]
    /\ lcCall' = [lcCall EXCEPT ![w] =
            [pc |-> "invalidate", kind |-> "put", id |-> id, seq |-> lcSeq + 1]]
    /\ UNCHANGED <<lcCache, lcNow, lcRet, lcRetPut>>

\* DeleteBlob line 120: s.Storage.DeleteBlob.
LcDeleteBlob(w, id) ==
    /\ lcCall[w].pc = "idle"
    /\ lcOps < MaxOps
    /\ lcOps' = lcOps + 1
    /\ lcBase' = lcBase \ {id}
    /\ lcSeq' = lcSeq + 1
    /\ lcApplied' = [lcApplied EXCEPT ![id] = lcSeq + 1]
    /\ lcCall' = [lcCall EXCEPT ![w] =
            [pc |-> "invalidate", kind |-> "delete", id |-> id, seq |-> lcSeq + 1]]
    /\ UNCHANGED <<lcCache, lcNow, lcRet, lcRetPut>>

\* invalidateAfterUpdate: does the loop body delete the cached list of p?
InvalidatesPrefix(blobID, p) == HasPrefix(blobID, p)

\* invalidateAfterUpdate removes the cached list of every prefix of
\* s.prefixes that the blob id starts with; then PutBlob / DeleteBlob returns
\* (lines 112-115, 121-124).  No id of BlobIDs starts with two of the cached
\* prefixes, so the loop performs at most one cacheStorage.DeleteBlob.
LcInvalidate(w) ==
    /\ lcCall[w].pc = "invalidate"
    /\ lcCache' = [p \in CachedPrefixSet |->
            IF InvalidatesPrefix(lcCall[w].id, p) THEN NoEntry ELSE lcCache[p]]
    /\ lcRet' = [lcRet EXCEPT ![lcCall[w].id] = Max2(@, lcCall[w].seq)]
    /\ lcRetPut' = [p \in CachedPrefixSet |->
            IF lcCall[w].kind = "put" /\ HasPrefix(lcCall[w].id, p)
            THEN Max2(lcRetPut[p], lcCall[w].seq) ELSE lcRetPut[p]]
    /\ lcCall' = [lcCall EXCEPT ![w] = Idle]
    /\ UNCHANGED <<lcBase, lcNow, lcSeq, lcApplied, lcOps>>

\* The clock advances.
LcTick ==
    /\ lcNow < MaxTime
    /\ lcNow' = lcNow + 1
    /\ UNCHANGED <<lcBase, lcCache, lcCall, lcSeq, lcApplied, lcRet, lcRetPut, lcOps>>

\* The list cache before any call is made.
LcIdle ==
    /\ lcBase = {}
    /\ lcCache = [p \in CachedPrefixSet |-> NoEntry]
    /\ lcNow = 0
    /\ lcCall = [w \in Wrappers |-> Idle]
    /\ lcSeq = 0
    /\ lcApplied = [id \in BlobIDs |-> 0]
    /\ lcRet = [id \in BlobIDs |-> 0]
    /\ lcRetPut = [p \in CachedPrefixSet |-> 0]
    /\ lcOps = 0

----------------------------------------------------------------------------
(* internal/treewalk (src/unnamed/part_010)                                *)

MaxPar == 2

\* Capacity of q.ch.  InParallel allocates 100 slots; the model scales the
\* buffer down so that a full channel, and with it the inline execution of
\* queueOrRun, is reached with a handful of items.
ChanCap == 1

TwItemIDs == 1..6

\* The children each item reports through ReportChildFunc, in order.
TwChildren(it) ==
    CASE it = 1 -> <<3, 4>>
      [] it = 3 -> <<5>>
      [] OTHER  -> <<>>

Workers == 1..MaxPar
Goroutines == 0..MaxPar
Caller == 0

Started(w) == w \in 1..twPar

\* A stack frame: an ItemFunc invocation for item it; next = 0 before the
\* body has begun, k >= 1 when child number k is the next one to report.
Frame(it) == [it |-> it, next |-> 0]

Top(g) == twStack[g][Len(twStack[g])]

Pop(st) == SubSeq(st, 1, Len(st) - 1)

\* The state before InParallel is called.
TwIdle ==
    /\ twPar = 0
    /\ twItems = <<>>
    /\ twFails = {}
    /\ twCh = <<>>
    /\ twQueued = 0
    /\ twActive = 0
    /\ twPc = [g \in Goroutines |-> "none"]
    /\ twStack = [g \in Goroutines |-> <<>>]
    /\ twNext = 1
    /\ twEgErr = {}
    /\ twResult = {}
    /\ twRuns = [it \in TwItemIDs |-> 0]
    /\ twFailed = {}

\* Mutation: no artificial in-progress discovery is registered.
TwInitialActive_None == 1 - 1

\* q.active when the workers start: the artificial in-progress discovery
\* (InParallel line 95).
TwInitialActive == 1

\* InParallel lines 83-112: the queue is set up and the workers are started.
TwInit ==
    /\ twPar \in 1..MaxPar
    /\ twItems \in { <<1>>, <<1, 2>>, <<2, 1, 6>> }
    /\ twFails \in { {}, {2}, {3}, {5} }
    /\ twCh = <<>>
    /\ twQueued = 0
    /\ twActive = TwInitialActive
    /\ twPc = [g \in Goroutines |->
                 IF g = Caller THEN "submit" ELSE IF g <= twPar THEN "dequeue" ELSE "none"]
    /\ twStack = [g \in Goroutines |-> <<>>]
    /\ twNext = 1
    /\ twEgErr = {}
    /\ twResult = {}
    /\ twRuns = [it \in TwItemIDs |-> 0]
    /\ twFailed = {}

\* sync.Cond.Signal: one of the goroutines blocked in Wait, if any, resumes.
Signal(pc) ==
    IF \E w \in Workers : pc[w] = "waiting"
    THEN { [pc EXCEPT ![w] = "dequeue"] : w \in { v \in Workers : pc[v] = "waiting" } }
    ELSE { pc }

\* sync.Cond.Broadcast: every goroutine blocked in Wait resumes.
Broadcast(pc) == [g \in Goroutines |-> IF pc[g] = "waiting" THEN "dequeue" ELSE pc[g]]

\* queueOrRun's select: is there room in the channel?
HasRoom(ch) == Len(ch) < ChanCap

\* queueOrRun called by goroutine g for item it, with g's stack being st and
\* its program counters pc: the item is queued and a waiter signalled, or,
\* with the channel full, ItemFunc is entered on g's own stack.
QueueOrRun(g, it, st, pc) ==
    IF HasRoom(twCh)
    THEN /\ twCh' = Append(twCh, it)
         /\ twQueued' = twQueued + 1
         /\ twPc' \in Signal(pc)
         /\ twStack' = [twStack EXCEPT ![g] = st]
    ELSE /\ twStack' = [twStack EXCEPT ![g] = Append(st, Frame(it))]
         /\ twPc' = pc
         /\ UNCHANGED <<twCh, twQueued>>

\* Mutation: the worker stops waiting while one discovery is still active.
MustWait_IgnoresLast(queued, active) == queued = 0 /\ active > 1

\* dequeueDisc's wait loop: no items queued, but a discovery is in progress.
MustWait(queued, active) == queued = 0 /\ active > 0

\* dequeueDisc, one passage through the critical section: block in Wait,
\* report that no work is left, or take the next item.
TwDequeue(w) ==
    /\ twPc[w] = "dequeue"
    /\ IF MustWait(twQueued, twActive)
       THEN /\ twPc' = [twPc EXCEPT ![w] = "waiting"]
            /\ UNCHANGED <<twCh, twQueued, twActive, twStack>>
       ELSE IF twQueued = 0
       THEN /\ twPc' = [twPc EXCEPT ![w] = "exited"]
            /\ UNCHANGED <<twCh, twQueued, twActive, twStack>>
       ELSE /\ twActive' = twActive + 1
            /\ twQueued' = twQueued - 1
            /\ twCh' = Tail(twCh)
            /\ twStack' = [twStack EXCEPT ![w] = <<Frame(Head(twCh))>>]
            /\ twPc' = [twPc EXCEPT ![w] = "run"]
    /\ UNCHANGED <<twPar, twItems, twFails, twNext, twEgErr, twResult, twRuns, twFailed>>

\* ItemFunc begins for the item on top of g's stack.  When it fails the error
\* travels up through every enclosing invocation: a worker returns it to the
\* errgroup (line 106, without completedDisc), the caller returns it from
\* InParallel (line 116).
TwInvoke(g) ==
    /\ twStack[g] # <<>>
    /\ Top(g).next = 0
    /\ twRuns' = [twRuns EXCEPT ![Top(g).it] = @ + 1]
    /\ IF Top(g).it \in twFails
       THEN /\ twFailed' = twFailed \cup {Top(g).it}
            /\ twStack' = [twStack EXCEPT ![g] = <<>>]
            /\ IF g = Caller
               THEN /\ twPc' = [twPc EXCEPT ![g] = "returned"]
                    /\ twResult' = {Top(g).it}
                    /\ UNCHANGED twEgErr
               ELSE /\ twPc' = [twPc EXCEPT ![g] = "exited"]
                    /\ twEgErr' = IF twEgErr = {} THEN {Top(g).it} ELSE twEgErr
                    /\ UNCHANGED twResult
       ELSE /\ twStack' = [twStack EXCEPT ![g][Len(twStack[g])].next = 1]
            /\ UNCHANGED <<twFailed, twPc, twResult, twEgErr>>
    /\ UNCHANGED <<twPar, twItems, twFails, twCh, twQueued, twActive, twNext>>

\* ItemFunc reports its next child through ReportChildFunc (queueOrRun).
TwReport(g) ==
    /\ twStack[g] # <<>>
    /\ Top(g).next >= 1
    /\ Top(g).next <= Len(TwChildren(Top(g).it))
    /\ QueueOrRun(g, TwChildren(Top(g).it)[Top(g).next],
                  [twStack[g] EXCEPT ![Len(twStack[g])].next = @ + 1], twPc)
    /\ UNCHANGED <<twPar, twItems, twFails, twActive, twNext, twEgErr, twResult,
                   twRuns, twFailed>>

\* ItemFunc returns nil for the item on top of g's stack.
TwFinish(g) ==
    /\ twStack[g] # <<>>
    /\ Top(g).next > Len(TwChildren(Top(g).it))
    /\ twStack' = [twStack EXCEPT ![g] = Pop(@)]
    /\ twPc' = IF g # Caller /\ Len(twStack[g]) = 1
               THEN [twPc EXCEPT ![g] = "complete"] ELSE twPc
    /\ UNCHANGED <<twPar, twItems, twFails, twCh, twQueued, twActive, twNext,
                   twEgErr, twResult, twRuns, twFailed>>

\* completedDisc called by a worker after a successful ItemFunc (line 109).
TwCompleted(w) ==
    /\ twPc[w] = "complete"
    /\ twActive' = twActive - 1
    /\ twPc' = [Broadcast(twPc) EXCEPT ![w] = "dequeue"]
    /\ UNCHANGED <<twPar, twItems, twFails, twCh, twQueued, twStack, twNext,
                   twEgErr, twResult, twRuns, twFailed>>

\* InParallel lines 114-118: the caller submits the next initial item.
TwSubmit ==
    /\ twPc[Caller] = "submit"
    /\ twStack[Caller] = <<>>
    /\ twNext <= Len(twItems)
    /\ twNext' = twNext + 1
    /\ QueueOrRun(Caller, twItems[twNext], <<>>, twPc)
    /\ UNCHANGED <<twPar, twItems, twFails, twActive, twEgErr, twResult, twRuns, twFailed>>

\* InParallel line 120: the artificial discovery completes.
TwSubmitted ==
    /\ twPc[Caller] = "submit"
    /\ twStack[Caller] = <<>>
    /\ twNext > Len(twItems)
    /\ twActive' = twActive - 1
    /\ twPc' = [Broadcast(twPc) EXCEPT ![Caller] = "wait"]
    /\ UNCHANGED <<twPar, twItems, twFails, twCh, twQueued, twStack, twNext,
                   twEgErr, twResult, twRuns, twFailed>>

\* InParallel line 122: eg.Wait() returns once every worker has returned.
TwWait ==
    /\ twPc[Caller] = "wait"
    /\ \A w \in Workers : Started(w) => twPc[w] = "exited"
    /\ twPc' = [twPc EXCEPT ![Caller] = "returned"]
    /\ twResult' = twEgErr
    /\ UNCHANGED <<twPar, twItems, twFails, twCh, twQueued, twActive, twStack,
                   twNext, twEgErr, twRuns, twFailed>>

----------------------------------------------------------------------------
(* repo/maintenance: full maintenance (spec.md section 4.9)                *)
(*                                                                         *)
(* The engine (maintenance_run.go, maintenance_safety.go, snapshotgc) is   *)
(* modelled after section 4.9 of the specification; the order of the tasks *)
(* is the one race_condition_test.go describes for runFullMaintenance.     *)
(* Time is in hours.                                                       *)

MaxClock == 29
MaxPacks == 2
MaxRuns == 3

\* SafetyFull (spec.md section 4.9, table of safety parameters).
MinContentAgeSubjectToGC == 24
RewriteMinAge == 2
MinRewriteToOrphanDeletionDelay == 1
BlobDeleteMinAge == 24
MarginBetweenSnapshotGC == 4
DropContentFromIndexExtraMargin == 1

Contents == {"c1", "c2"}
Packs == 1..MaxPacks

\* How far the clock moves between two maintenance runs: steps the tests
\* take with ft.Advance.
Advances == {1, 4, 24}

NoPack == 0
Never == -1

\* An index entry; present = FALSE is a content the index does not list.
Absent == [present |-> FALSE, pack |-> NoPack, ts |-> 0, deleted |-> FALSE]
Entry(pack, ts, deleted) ==
    [present |-> TRUE, pack |-> pack, ts |-> ts, deleted |-> deleted]

NoBlob == [exists |-> FALSE, ts |-> 0]

NoRead == [content |-> "none", result |-> "none"]

\* The packs the index idx points at.
Referenced(idx) == { idx[c].pack : c \in { d \in Contents : idx[d].present } }

\* No maintenance has run and nothing has been written.
MtIdle ==
    /\ mtNow = 0
    /\ mtPc = "idle"
    /\ mtIndex = [c \in Contents |-> Absent]
    /\ mtBlobs = [p \in Packs |-> NoBlob]
    /\ mtNextPack = 1
    /\ mtLive = {}
    /\ mtGcRuns = <<>>
    /\ mtOrphanedAt = [p \in Packs |-> Never]
    /\ mtClient = [c \in Contents |-> Absent]
    /\ mtRead = NoRead
    /\ mtDroppedFrom = [c \in Contents |-> NoPack]
    /\ mtRuns = 0
    /\ mtPending = {}

\* The packs the contents are written to before maintenance starts: one
\* session for both contents, or a session and a pack for each.
InitialPack(separate, c) == IF separate /\ c = "c2" THEN 2 ELSE 1

\* Sessions have written the contents and flushed; a snapshot may reference
\* some of them; the client has opened the repository.
MtInit ==
    /\ mtNow = 0
    /\ mtPc = "idle"
    /\ \E separate \in BOOLEAN :
          /\ mtIndex = [c \in Contents |-> Entry(InitialPack(separate, c), 0, FALSE)]
          /\ mtBlobs = [p \in Packs |->
                          IF \E c \in Contents : InitialPack(separate, c) = p
                          THEN [exists |-> TRUE, ts |-> 0] ELSE NoBlob]
          /\ mtNextPack = IF separate THEN 3 ELSE 2
    /\ mtLive \in {{}, {"c2"}, {"c1", "c2"}}
    /\ mtGcRuns = <<>>
    /\ mtOrphanedAt = [p \in Packs |-> Never]
    /\ mtClient = mtIndex
    /\ mtRead = NoRead
    /\ mtDroppedFrom = [c \in Contents |-> NoPack]
    /\ mtRuns = 0
    /\ mtPending = {}

\* The clock advances by one of the steps before the next maintenance run.
MtAdvanceWithin(d, limit) ==
    /\ mtPc = "idle"
    /\ mtNow + d <= limit
    /\ mtNow' = mtNow + d
    /\ mtPc' = "waited"
    /\ UNCHANGED <<mtIndex, mtBlobs, mtNextPack, mtLive, mtGcRuns,
                   mtOrphanedAt, mtClient, mtRead, mtDroppedFrom, mtRuns,
                   mtPending>>

MtAdvance(d) == MtAdvanceWithin(d, MaxClock)

\* Mutation: the live set is not looked at.
SubjectToGC_IgnoresLive(c) ==
    /\ mtIndex[c].present
    /\ ~mtIndex[c].deleted
    /\ mtNow - mtIndex[c].ts >= MinContentAgeSubjectToGC

\* Snapshot GC may tombstone content c: it is listed, not yet deleted, not in
\* the live set, and at least MinContentAgeSubjectToGC old by its index ts.
SubjectToGC(c) ==
    /\ mtIndex[c].present
    /\ ~mtIndex[c].deleted
    /\ c \notin mtLive
    /\ mtNow - mtIndex[c].ts >= MinContentAgeSubjectToGC

\* a snapshot GC that never undeletes
Undeleted_Never(c) == FALSE

\* Snapshot GC undeletes content c: a live snapshot refers to it and the
\* index holds a tombstone for it.
Undeleted(c) ==
    /\ mtIndex[c].present
    /\ mtIndex[c].deleted
    /\ c \in mtLive

\* snapshotmaintenance.Run with ModeFull: the snapshot GC runs first and is
\* recorded in the run history, then maintenance.Run starts its tasks.
MtSnapshotGC ==
    /\ mtPc \in {"idle", "waited"}
    /\ mtRuns < MaxRuns
    /\ mtIndex' = [c \in Contents |->
                     IF SubjectToGC(c)
                     THEN Entry(mtIndex[c].pack, mtNow, TRUE)
                     ELSE IF Undeleted(c)
                     THEN Entry(mtIndex[c].pack, mtNow, FALSE)
                     ELSE mtIndex[c]]
    /\ mtGcRuns' = SubSeq(<<mtNow>> \o mtGcRuns, 1, IF mtGcRuns = <<>> THEN 1 ELSE 2)
    /\ mtPc' = "rewrite"
    /\ mtRuns' = mtRuns + 1
    /\ UNCHANGED <<mtNow, mtBlobs, mtNextPack, mtLive, mtOrphanedAt, mtClient,
                   mtRead, mtDroppedFrom, mtPending>>

\* Content rewrite may select content c: every pack of the model is short,
\* so what decides is the age.
Rewritable(c) ==
    /\ mtIndex[c].present
    /\ mtNow - mtIndex[c].ts >= RewriteMinAge

\* Content rewrite: the selected contents S are written into one fresh pack
\* and their index entries point at it; a pack that loses its last reference
\* is entered in the rewrite-audit log.
MtRewrite(S) ==
    /\ mtPc = "rewrite"
    /\ \A c \in S : Rewritable(c)
    /\ S # {} => mtNextPack <= MaxPacks
    /\ LET np  == mtNextPack
           idx == [c \in Contents |->
                     IF c \in S THEN Entry(np, mtNow, mtIndex[c].deleted)
                     ELSE mtIndex[c]]
       IN  /\ mtIndex' = idx
           /\ mtBlobs' = IF S = {} THEN mtBlobs
                         ELSE [mtBlobs EXCEPT ![np] = [exists |-> TRUE, ts |-> mtNow]]
           /\ mtNextPack' = IF S = {} THEN mtNextPack ELSE mtNextPack + 1
           /\ mtOrphanedAt' = [p \in Packs |->
                                 IF p \in Referenced(mtIndex) \ Referenced(idx)
                                 THEN mtNow ELSE mtOrphanedAt[p]]
    /\ mtPc' = "drop"
    /\ UNCHANGED <<mtNow, mtLive, mtGcRuns, mtClient, mtRead, mtDroppedFrom, mtRuns,
                   mtPending>>

\* Mutation: the spacing between the two newest GC runs is not looked at.
findSafeDropTime_NoMargin(runs) ==
    IF Len(runs) >= 2 THEN runs[2] - DropContentFromIndexExtraMargin ELSE Never

\* findSafeDropTime: Never unless there are two successful GC runs at least
\* MarginBetweenSnapshotGC apart; otherwise the start of the previous run
\* less DropContentFromIndexExtraMargin.
findSafeDropTime(runs) ==
    IF Len(runs) >= 2 /\ runs[1] - runs[2] >= MarginBetweenSnapshotGC
    THEN runs[2] - DropContentFromIndexExtraMargin
    ELSE Never

\* Mutation: no tombstone is ever dropped.
Droppable_Never(c) == FALSE

\* The tombstone of c may be dropped from the index.
Droppable(c) ==
    /\ mtIndex[c].present
    /\ mtIndex[c].deleted
    /\ findSafeDropTime(mtGcRuns) # Never
    /\ mtIndex[c].ts <= findSafeDropTime(mtGcRuns)

\* Drop deleted contents: a compaction that omits every droppable tombstone.
MtDropDeleted ==
    /\ mtPc = "drop"
    /\ mtIndex' = [c \in Contents |-> IF Droppable(c) THEN Absent ELSE mtIndex[c]]
    /\ mtDroppedFrom' = [c \in Contents |->
                           IF Droppable(c) THEN mtIndex[c].pack ELSE mtDroppedFrom[c]]
    /\ mtPc' = "blobs"
    /\ UNCHANGED <<mtNow, mtBlobs, mtNextPack, mtLive, mtGcRuns, mtOrphanedAt,
                   mtClient, mtRead, mtRuns,
                   mtPending>>

\* Mutation: the age of the pack blob is not looked at.
Deletable_AnyAge(p) ==
    /\ mtBlobs[p].exists
    /\ p \notin Referenced(mtIndex)
    /\ \/ mtOrphanedAt[p] = Never
       \/ mtNow - mtOrphanedAt[p] >= MinRewriteToOrphanDeletionDelay

\* A pack blob is deletable: unreferenced by the merged index, at least
\* BlobDeleteMinAge old, and MinRewriteToOrphanDeletionDelay past the rewrite
\* that orphaned it.
Deletable(p) ==
    /\ mtBlobs[p].exists
    /\ p \notin Referenced(mtIndex)
    /\ mtNow - mtBlobs[p].ts >= BlobDeleteMinAge
    /\ \/ mtOrphanedAt[p] = Never
       \/ mtNow - mtOrphanedAt[p] >= MinRewriteToOrphanDeletionDelay

\* Delete orphaned blobs; the full maintenance run ends.
MtDeleteOrphaned ==
    /\ mtPc = "blobs"
    /\ mtBlobs' = [p \in Packs |-> IF Deletable(p) THEN NoBlob ELSE mtBlobs[p]]
    /\ mtPc' = "idle"
    /\ UNCHANGED <<mtNow, mtIndex, mtNextPack, mtLive, mtGcRuns, mtOrphanedAt,
                   mtClient, mtRead, mtDroppedFrom, mtRuns,
                   mtPending>>

\* read(cid) (spec.md section 4.7) against index idx.
ReadContent(idx, c) ==
    IF ~idx[c].present \/ idx[c].deleted THEN "ContentNotFound"
    ELSE IF ~mtBlobs[idx[c].pack].exists THEN "BlobNotFound"
    ELSE "ok"

\* The client reads content c through the index it loaded when it opened
\* the repository.
MtClientRead(c) ==
    /\ mtRead' = [content |-> c, result |-> ReadContent(mtClient, c)]
    /\ UNCHANGED <<mtNow, mtPc, mtIndex, mtBlobs, mtNextPack, mtLive, mtGcRuns,
                   mtOrphanedAt, mtClient, mtDroppedFrom, mtRuns,
                   mtPending>>

\* A second session takes a snapshot that reuses content c, which its index
\* lists as live: nothing is written for c, and the manifest that refers to
\* it stays in the session until the flush.
MtSnapshotReuse(c) ==
    /\ mtPending = {}
    /\ c \notin mtLive
    /\ mtIndex[c].present
    /\ ~mtIndex[c].deleted
    /\ mtPending' = {c}
    /\ UNCHANGED <<mtNow, mtPc, mtIndex, mtBlobs, mtNextPack, mtLive, mtGcRuns,
                   mtOrphanedAt, mtClient, mtRead, mtDroppedFrom, mtRuns>>

\* The session flushes: the snapshot manifest becomes visible.
MtSnapshotFlush ==
    /\ mtPending # {}
    /\ mtLive' = mtLive \cup mtPending
    /\ mtPending' = {}
    /\ UNCHANGED <<mtNow, mtPc, mtIndex, mtBlobs, mtNextPack, mtGcRuns,
                   mtOrphanedAt, mtClient, mtRead, mtDroppedFrom, mtRuns>>

\* Full maintenance starts while no session holds an unflushed snapshot of
\* contents that an earlier run tombstoned: the session of
\* TestMaintenanceReuseDirManifest flushes after the run that tombstoned
\* the contents it reuses and before the next run.
MtSnapshotGCAfterFlush ==
    /\ \A c \in mtPending : ~(mtIndex[c].present /\ mtIndex[c].deleted)
    /\ MtSnapshotGC

\* Delete-then-maintain (spec.md section 8, scenario 3): one content is
\* written and flushed, then deleted, which writes a tombstone with the
\* current time; the clock is then moved past the three safety delays.
MaxDmClock == 35

FastForward == BlobDeleteMinAge + MarginBetweenSnapshotGC + DropContentFromIndexExtraMargin + 1
DmAdvances == {1, 4, FastForward}

MtDeletedInit ==
    /\ mtNow = 0
    /\ mtPc = "idle"
    /\ mtIndex = [c \in Contents |-> IF c = "c1" THEN Entry(1, 0, TRUE) ELSE Absent]
    /\ mtBlobs = [p \in Packs |-> IF p = 1 THEN [exists |-> TRUE, ts |-> 0] ELSE NoBlob]
    /\ mtNextPack = 2
    /\ mtLive = {}
    /\ mtGcRuns = <<>>
    /\ mtOrphanedAt = [p \in Packs |-> Never]
    /\ mtClient = mtIndex
    /\ mtRead = NoRead
    /\ mtDroppedFrom = [c \in Contents |-> NoPack]
    /\ mtRuns = 0
    /\ mtPending = {}

----------------------------------------------------------------------------
(* repo/maintenance: the maintenance lease (spec.md sections 4.9 and 5)    *)
(*                                                                         *)
(* maintenance.RunExclusive, which snapshotmaintenance.Run calls, is       *)
(* modelled after the specification: a process looks for a lease manifest  *)
(* (manifest store find), aborts with LockBusy when it sees an unexpired   *)
(* one of another process, and otherwise takes the lease by writing and    *)
(* flushing its own lease manifest (manifest store put).                   *)

MaxLsTime == 3
MaxStarts == 3

\* Time to live of a lease manifest, in clock ticks.
LeaseTTL == 2

Procs == {"p1", "p2"}

NoLease == 0

\* The lease of process q is visible and has not expired.
Unexpired(q) == lsLease[q] # NoLease /\ lsNow < lsLease[q]

\* No process has attempted maintenance.
LsIdle ==
    /\ lsNow = 0
    /\ lsLease = [p \in Procs |-> NoLease]
    /\ lsPc = [p \in Procs |-> "idle"]
    /\ lsStarts = 0

\* Process p starts maintenance and looks for lease manifests: seeing an
\* unexpired lease of another process it aborts with LockBusy.
LsFind(p) ==
    /\ lsPc[p] = "idle"
    /\ lsStarts < MaxStarts
    /\ lsStarts' = lsStarts + 1
    /\ lsPc' = [lsPc EXCEPT ![p] =
                  IF \E q \in Procs \ {p} : Unexpired(q) THEN "LockBusy" ELSE "take"]
    /\ UNCHANGED <<lsNow, lsLease>>

\* Process p takes the lease: it puts and flushes its lease manifest and
\* proceeds with the maintenance tasks.
LsTake(p) ==
    /\ lsPc[p] = "take"
    /\ lsLease' = [lsLease EXCEPT ![p] = lsNow + LeaseTTL]
    /\ lsPc' = [lsPc EXCEPT ![p] = "running"]
    /\ UNCHANGED <<lsNow, lsStarts>>

\* Process p finishes maintenance and deletes its lease manifest.
LsRelease(p) ==
    /\ lsPc[p] = "running"
    /\ lsLease' = [lsLease EXCEPT ![p] = NoLease]
    /\ lsPc' = [lsPc EXCEPT ![p] = "idle"]
    /\ UNCHANGED <<lsNow, lsStarts>>

\* Process p dies during maintenance: its lease is abandoned and stays in
\* the repository until it expires.
LsAbandon(p) ==
    /\ lsPc[p] = "running"
    /\ lsPc' = [lsPc EXCEPT ![p] = "idle"]
    /\ UNCHANGED <<lsNow, lsLease, lsStarts>>

\* The failed attempt of process p is over.
LsGiveUp(p) ==
    /\ lsPc[p] = "LockBusy"
    /\ lsPc' = [lsPc EXCEPT ![p] = "idle"]
    /\ UNCHANGED <<lsNow, lsLease, lsStarts>>

LsTick ==
    /\ lsNow < MaxLsTime
    /\ lsNow' = lsNow + 1
    /\ UNCHANGED <<lsLease, lsPc, lsStarts>>

----------------------------------------------------------------------------
(* repo/format: the upgrade lock (src/repo/password.go, package format)    *)
(*                                                                         *)
(* One format.Manager works on a blob store; m.mu serialises its calls, so *)
(* every call is one step.  A call carries a budget: the number of storage *)
(* operations that succeed before one fails, so a call can stop with an    *)
(* error after any of its writes and deletes.  The manager keeps a copy of *)
(* the format blob (m.repoConfig); maybeRefreshLocked, which is not part   *)
(* of the sources at hand, either keeps that copy or reloads it from the   *)
(* store, and reloads it once m.cache.Remove has dropped the cached blob.  *)

MaxUlTime == 2
MaxUlCalls == 4
MaxStorageOps == 5
MaxFormatVersion == 3

Owners == {"o1", "o2", "o3"}
Budgets == 0..MaxStorageOps
NoLock == "nolock"
NoOwner == "nobody"

Format(version, lock) == [version |-> version, lock |-> lock]
NoFormat == Format(0, NoLock)
NoBackups == [o \in {} |-> NoFormat]

\* ListBlobs(BackupBlobIDPrefix) reports the backups in the order of their
\* blob IDs, that is of their owners.
ListOrder == <<"o1", "o2", "o3">>

UlCall(op, err, from, pre) == [op |-> op, err |-> err, from |-> from, pre |-> pre]

UlIdle ==
    /\ ulFormat = Format(1, NoLock)
    /\ ulBackups = NoBackups
    /\ ulConfig = Format(1, NoLock)
    /\ ulValid = TRUE
    /\ ulNow = 0
    /\ ulCalls = 0
    /\ ulLast = UlCall("none", FALSE, NoOwner, NoBackups)
    /\ ulPreLock = NoFormat
    /\ ulLockBackup = NoFormat

UlInit ==
    /\ ulFormat \in {Format(v, NoLock) : v \in 1..(MaxFormatVersion - 1)}
    /\ ulBackups = NoBackups
    /\ ulConfig = ulFormat
    /\ ulValid = TRUE
    /\ ulNow = 0
    /\ ulCalls = 0
    /\ ulLast = UlCall("none", FALSE, NoOwner, NoBackups)
    /\ ulPreLock = NoFormat
    /\ ulLockBackup = NoFormat

maybeRefreshLocked(reload) == IF reload \/ ~ulValid THEN ulFormat ELSE ulConfig

\* PutBlob of a backup blob: BackupBlobID(l) is the prefix plus l.OwnerID.
WriteBackup(backups, o, data, now) ==
    [x \in (DOMAIN backups) \cup {o} |->
        IF x = o THEN [data |-> data, ts |-> now] ELSE backups[x]]

DeleteBackup(backups, o) == [x \in (DOMAIN backups) \ {o} |-> backups[x]]

PlaceLock_FormatFirst(cfg, o, budget, backups, format, now) ==
    LET locked == [cfg EXCEPT !.lock = o, !.version = MaxFormatVersion]
    IN  IF budget = 0
        THEN [backups |-> backups, format |-> format, config |-> locked,
              err |-> TRUE, wrote |-> FALSE]
        ELSE IF budget = 1
        THEN [backups |-> backups, format |-> locked, config |-> locked,
              err |-> TRUE, wrote |-> FALSE]
        ELSE [backups |-> WriteBackup(backups, o, cfg, now), format |-> locked,
              config |-> locked, err |-> FALSE, wrote |-> TRUE]

\* The first lock: the backup of the format is written, then the lock and
\* the newest version are set in m.repoConfig, then the format blob is
\* written.
PlaceLock(cfg, o, budget, backups, format, now) ==
    LET locked == [cfg EXCEPT !.lock = o, !.version = MaxFormatVersion]
    IN  IF budget = 0
        THEN [backups |-> backups, format |-> format, config |-> cfg,
              err |-> TRUE, wrote |-> FALSE]
        ELSE IF budget = 1
        THEN [backups |-> WriteBackup(backups, o, cfg, now), format |-> format,
              config |-> locked, err |-> TRUE, wrote |-> TRUE]
        ELSE [backups |-> WriteBackup(backups, o, cfg, now), format |-> locked,
              config |-> locked, err |-> FALSE, wrote |-> TRUE]

\* UpgradeLock.Update(&l): the lock of another owner is not updated.
UpdateLock(cfg, o, budget, backups, format) ==
    IF cfg.lock # o
    THEN [backups |-> backups, format |-> format, config |-> cfg,
          err |-> TRUE, wrote |-> FALSE]
    ELSE IF budget = 0
    THEN [backups |-> backups, format |-> format, config |-> cfg,
          err |-> TRUE, wrote |-> FALSE]
    ELSE [backups |-> backups, format |-> cfg, config |-> cfg,
          err |-> FALSE, wrote |-> FALSE]

PreLock(old, new, pre) == IF old.lock = NoLock /\ new.lock # NoLock THEN old ELSE pre

SetUpgradeLockIntent(o, reload, budget) ==
    /\ ulCalls < MaxUlCalls
    /\ ulCalls' = ulCalls + 1
    /\ ulValid' = TRUE
    /\ UNCHANGED ulNow
    /\ LET cfg == maybeRefreshLocked(reload)
           r == IF cfg.lock = NoLock
                THEN IF cfg.version >= MaxFormatVersion
                     THEN [backups |-> ulBackups, format |-> ulFormat,
                           config |-> cfg, err |-> TRUE, wrote |-> FALSE]
                     ELSE PlaceLock(cfg, o, budget, ulBackups, ulFormat, ulNow)
                ELSE UpdateLock(cfg, o, budget, ulBackups, ulFormat)
       IN  /\ ulBackups' = r.backups
           /\ ulFormat' = r.format
           /\ ulConfig' = r.config
           /\ ulLast' = UlCall("set", r.err, NoOwner, ulBackups)
           /\ ulPreLock' = PreLock(ulFormat, r.format, ulPreLock)
           /\ ulLockBackup' = IF r.wrote THEN cfg ELSE ulLockBackup

CommitUpgrade(reload, budget) ==
    /\ ulCalls < MaxUlCalls
    /\ ulCalls' = ulCalls + 1
    /\ ulValid' = TRUE
    /\ UNCHANGED <<ulNow, ulBackups, ulPreLock, ulLockBackup>>
    /\ LET cfg == maybeRefreshLocked(reload)
           unlocked == [cfg EXCEPT !.lock = NoLock]
       IN  IF cfg.lock = NoLock
           THEN /\ ulConfig' = cfg
                /\ ulFormat' = ulFormat
                /\ ulLast' = UlCall("commit", TRUE, NoOwner, ulBackups)
           ELSE /\ ulConfig' = unlocked
                /\ ulFormat' = IF budget = 0 THEN ulFormat ELSE unlocked
                /\ ulLast' = UlCall("commit", budget = 0, NoOwner, ulBackups)

Older_Newest(a, b) == a.ts > b.ts

\* bm.Timestamp.Before(oldestBackup.Timestamp)
Older(a, b) == a.ts < b.ts

\* The callback of ListBlobs: it keeps the oldest backup seen so far and
\* deletes every other one; a failing DeleteBlob ends the listing.
RECURSIVE ListBackups(_, _, _)
ListBackups(all, st, i) ==
    IF i > Len(ListOrder) \/ st.err
    THEN st
    ELSE LET o == ListOrder[i]
         IN  IF o \notin DOMAIN all
             THEN ListBackups(all, st, i + 1)
             ELSE LET takes == st.oldest = NoOwner \/ Older(all[o], all[st.oldest])
                      delID == IF takes THEN st.oldest ELSE o
                      kept == IF takes THEN o ELSE st.oldest
                  IN  IF delID = NoOwner
                      THEN ListBackups(all, [st EXCEPT !.oldest = kept], i + 1)
                      ELSE IF st.budget = 0
                      THEN [st EXCEPT !.oldest = kept, !.err = TRUE]
                      ELSE ListBackups(all,
                               [oldest |-> kept,
                                backups |-> DeleteBackup(st.backups, delID),
                                budget |-> st.budget - 1,
                                err |-> FALSE],
                               i + 1)

AfterRestore_Keep(backups, oldest) == backups

\* "delete the backup after we have restored the format-blob"
AfterRestore(backups, oldest) == DeleteBackup(backups, oldest)

RollbackUpgrade(reload, budget) ==
    /\ ulCalls < MaxUlCalls
    /\ ulCalls' = ulCalls + 1
    /\ UNCHANGED <<ulNow, ulPreLock, ulLockBackup>>
    /\ LET cfg == maybeRefreshLocked(reload)
           st == ListBackups(ulBackups,
                             [oldest |-> NoOwner, backups |-> ulBackups,
                              budget |-> budget, err |-> FALSE], 1)
       IN  /\ ulConfig' = cfg
           /\ IF cfg.lock = NoLock
              THEN /\ UNCHANGED <<ulFormat, ulBackups>>
                   /\ ulValid' = TRUE
                   /\ ulLast' = UlCall("rollback", TRUE, NoOwner, ulBackups)
              ELSE IF st.err
              THEN /\ UNCHANGED ulFormat
                   /\ ulBackups' = st.backups
                   /\ ulValid' = TRUE
                   /\ ulLast' = UlCall("rollback", TRUE, NoOwner, ulBackups)
              ELSE IF st.oldest = NoOwner
              THEN /\ UNCHANGED <<ulFormat, ulBackups>>
                   /\ ulValid' = FALSE
                   /\ ulLast' = UlCall("rollback", FALSE, NoOwner, ulBackups)
              ELSE IF st.budget < 2
              THEN \* GetBlob or PutBlob failed
                   /\ UNCHANGED ulFormat
                   /\ ulBackups' = st.backups
                   /\ ulValid' = TRUE
                   /\ ulLast' = UlCall("rollback", TRUE, NoOwner, ulBackups)
              ELSE IF st.budget = 2
              THEN \* the format blob is restored, the last DeleteBlob failed
                   /\ ulFormat' = ulBackups[st.oldest].data
                   /\ ulBackups' = st.backups
                   /\ ulValid' = TRUE
                   /\ ulLast' = UlCall("rollback", TRUE, st.oldest, ulBackups)
              ELSE /\ ulFormat' = ulBackups[st.oldest].data
                   /\ ulBackups' = AfterRestore(st.backups, st.oldest)
                   /\ ulValid' = FALSE
                   /\ ulLast' = UlCall("rollback", FALSE, st.oldest, ulBackups)

UlTick ==
    /\ ulNow < MaxUlTime
    /\ ulNow' = ulNow + 1
    /\ UNCHANGED <<ulFormat, ulBackups, ulConfig, ulValid, ulCalls, ulLast,
                   ulPreLock, ulLockBackup>>

----------------------------------------------------------------------------
(* repo/blob/cached: the caching wrapper (src/unnamed/part_014)            *)
(*                                                                         *)
(* The wrapper of NewWrapper(base, PrefixBasedActionFunc({"ignore"},       *)
(* {"cache"})).  Every call is one step.  The base storage is not part of  *)
(* the sources at hand; it follows the blob backend contract of            *)
(* section 4.1 of the specification, and its put and delete can fail.      *)

MaxLen == 2
MaxCsOps == 3

CachedIDs == { <<"ignore", "1">>, <<"cache", "1">>, <<"other", "1">> }
IgnorePrefixes == { <<"ignore">> }
CachePrefixes == { <<"cache">> }
ListedPrefixes == { <<>>, <<"cache">>, <<"other">> }

\* blob contents: byte i of a blob is i, so a slice tells where it was cut
Datas == { [i \in 1..n |-> i] : n \in 0..MaxLen }
Offsets == -1..(MaxLen + 1)
Lengths == -1..(MaxLen + 1)

NoBlobs == [id \in {} |-> <<>>]
NoError == "ok"
ErrBlobNotFound == "NotFound"
ErrInvalidRange == "InvalidRange"
ErrUnavailable == "Unavailable"

Result(err, out) == [err |-> err, out |-> out]

CsCall(op, id, res, offset, length, hit, data) ==
    [op |-> op, id |-> id, err |-> res.err, out |-> res.out,
     offset |-> offset, length |-> length, hit |-> hit, data |-> data]

CsIdle ==
    /\ csCache = NoBlobs
    /\ csBase = NoBlobs
    /\ csOps = 0
    /\ csLast = CsCall("none", <<"other", "1">>, Result(NoError, <<>>), 0, 0, FALSE, <<>>)

PrefixBasedActionFunc(blobID) ==
    IF \E prefix \in IgnorePrefixes : HasPrefix(blobID, prefix)
    THEN "Ignore"
    ELSE IF \E prefix \in CachePrefixes : HasPrefix(blobID, prefix)
    THEN "Cache"
    ELSE "PassThrough"

\* data[offset:] and data[offset:offset+length] of Go, offsets from 0
Slice(data, from, to) == SubSeq(data, from + 1, to)

\* get of the blob backend contract: length -1 reads to the end, a negative
\* offset or a range past the end is InvalidRange.
ContractGet(data, offset, length) ==
    IF offset < 0 \/ offset > Len(data)
    THEN Result(ErrInvalidRange, <<>>)
    ELSE IF length < 0
    THEN Result(NoError, Slice(data, offset, Len(data)))
    ELSE IF offset + length > Len(data)
    THEN Result(ErrInvalidRange, <<>>)
    ELSE Result(NoError, Slice(data, offset, offset + length))

BaseGetBlob(base, id, offset, length) ==
    IF id \notin DOMAIN base
    THEN Result(ErrBlobNotFound, <<>>)
    ELSE ContractGet(base[id], offset, length)

serveBlobFromCache(data, offset, length) ==
    IF offset < 0 \/ offset >= Len(data)
    THEN Result(ErrInvalidRange, <<>>)
    ELSE IF length < 0
    THEN Result(NoError, Slice(data, offset, Len(data)))
    ELSE IF offset + length > Len(data)
    THEN Result(ErrInvalidRange, <<>>)
    ELSE Result(NoError, Slice(data, offset, offset + length))

\* cachedStorage.GetBlob as a function of the two stores
GetBlobResult(cache, base, id, offset, length) ==
    IF id \in DOMAIN cache
    THEN serveBlobFromCache(cache[id], offset, length)
    ELSE BaseGetBlob(base, id, offset, length)

Store(st, id, data) == [x \in (DOMAIN st) \cup {id} |-> IF x = id THEN data ELSE st[x]]

Remove(st, id) == [x \in (DOMAIN st) \ {id} |-> st[x]]

StoreInCache_Skip(cache, id, data) == cache

\* s.cache[id] = cachedItem{data: dataBytes, ...}
StoreInCache(cache, id, data) == Store(cache, id, data)

DropFromCache_Keep(cache, id) == cache

\* delete(s.cache, id)
DropFromCache(cache, id) == Remove(cache, id)

PutBlob(id, data, ok) ==
    /\ csOps < MaxCsOps
    /\ csOps' = csOps + 1
    /\ LET action == PrefixBasedActionFunc(id)
           err == IF ok THEN NoError ELSE ErrUnavailable
       IN  IF action = "Ignore"
           THEN /\ UNCHANGED <<csCache, csBase>>
                /\ csLast' = CsCall("put", id, Result(NoError, <<>>), 0, 0, FALSE, data)
           ELSE /\ csCache' = IF action = "Cache"
                              THEN StoreInCache(csCache, id, data)
                              ELSE csCache
                /\ csBase' = IF ok THEN Store(csBase, id, data) ELSE csBase
                /\ csLast' = CsCall("put", id, Result(err, <<>>), 0, 0, FALSE, data)

GetBlob(id, offset, length) ==
    /\ csOps < MaxCsOps
    /\ csOps' = csOps + 1
    /\ UNCHANGED <<csCache, csBase>>
    /\ csLast' = CsCall("get", id, GetBlobResult(csCache, csBase, id, offset, length),
                        offset, length, id \in DOMAIN csCache,
                        IF id \in DOMAIN csCache THEN csCache[id] ELSE <<>>)

\* s.base.DeleteBlob: a missing blob is NotFound
BaseDelete(base, id, ok) ==
    IF id \notin DOMAIN base
    THEN [base |-> base, err |-> ErrBlobNotFound]
    ELSE IF ok
    THEN [base |-> Remove(base, id), err |-> NoError]
    ELSE [base |-> base, err |-> ErrUnavailable]

DeleteBlob(id, ok) ==
    /\ csOps < MaxCsOps
    /\ csOps' = csOps + 1
    /\ csCache' = DropFromCache(csCache, id)
    /\ LET r == BaseDelete(csBase, id, ok)
       IN  /\ csBase' = r.base
           /\ csLast' = CsCall("delete", id, Result(r.err, <<>>), 0, 0, FALSE, <<>>)

\* the ids of a store that start with the prefix
WithPrefix(st, prefix) == { id \in DOMAIN st : HasPrefix(id, prefix) }

\* some order of a set of ids: the order of a Go map range or of a base
\* listing is not specified
RECURSIVE InSomeOrder(_)
InSomeOrder(ids) ==
    IF ids = {}
    THEN <<>>
    ELSE LET id == CHOOSE x \in ids : TRUE
         IN  <<id>> \o InSomeOrder(ids \ {id})

seen_Nothing(cachedIDs, id) == FALSE

\* seen[id], set for every cached id that matches the prefix
seen(cachedIDs, id) == id \in cachedIDs

\* the ids the callback is called with, in the order of the calls
Callbacks(cache, base, prefix) ==
    LET cachedIDs == WithPrefix(cache, prefix)
        fromBase == { id \in WithPrefix(base, prefix) : ~seen(cachedIDs, id) }
    IN  InSomeOrder(cachedIDs) \o InSomeOrder(fromBase)

ListBlobs(prefix) ==
    /\ csOps < MaxCsOps
    /\ csOps' = csOps + 1
    /\ UNCHANGED <<csCache, csBase>>
    /\ csLast' = CsCall("list", prefix, Result(NoError, Callbacks(csCache, csBase, prefix)),
                        0, 0, FALSE, <<>>)

\* baseStorage.DeleteBlob called past the wrapper, as the tests do
BaseDeleteBlob(id) ==
    /\ csOps < MaxCsOps
    /\ id \in DOMAIN csBase
    /\ csOps' = csOps + 1
    /\ csBase' = Remove(csBase, id)
    /\ UNCHANGED csCache
    /\ csLast' = CsCall("basedelete", id, Result(NoError, <<>>), 0, 0, FALSE, <<>>)

----------------------------------------------------------------------------
(* repo/blob/cached: the wrapper under concurrent calls                    *)
(*                                                                         *)
(* Several goroutines call PutBlob (action Cache), DeleteBlob and GetBlob  *)
(* for one blob id.  A call takes s.mu only around its access to s.cache   *)
(* and calls the base storage after it has released the lock, so a call is *)
(* two steps: its cache step and its base step.                            *)

MaxCcCalls == 3

CcGoroutines == {"g1", "g2", "g3"}
PutDatas == {"d1", "d2"}
NoData == "absent"

CcNoCall == [op |-> "none", data |-> NoData]

CcIdle ==
    /\ ccCache = NoData
    /\ ccBase = NoData
    /\ ccPc = [g \in CcGoroutines |-> "idle"]
    /\ ccArg = [g \in CcGoroutines |-> CcNoCall]
    /\ ccCalls = 0

CcStart(g, op, data) ==
    /\ ccPc[g] = "idle"
    /\ ccCalls < MaxCcCalls
    /\ ccCalls' = ccCalls + 1
    /\ ccPc' = [ccPc EXCEPT ![g] = "cache"]
    /\ ccArg' = [ccArg EXCEPT ![g] = [op |-> op, data |-> data]]
    /\ UNCHANGED <<ccCache, ccBase>>

CcPutBlob(g, data) == CcStart(g, "put", data)

CcDeleteBlob(g) == CcStart(g, "delete", NoData)

CcGetBlob(g) == CcStart(g, "get", NoData)

\* the part of a call that runs under s.mu
CcCacheStep(g) ==
    /\ ccPc[g] = "cache"
    /\ ccCache' = IF ccArg[g].op = "put" THEN ccArg[g].data
                  ELSE IF ccArg[g].op = "delete" THEN NoData
                  ELSE ccCache
    /\ ccPc' = [ccPc EXCEPT ![g] = IF ccArg[g].op = "get" /\ ccCache # NoData
                                   THEN "idle"
                                   ELSE "base"]
    /\ UNCHANGED <<ccBase, ccArg, ccCalls>>

\* the call's s.base.PutBlob, s.base.DeleteBlob or s.base.GetBlob
CcBaseStep(g) ==
    /\ ccPc[g] = "base"
    /\ ccBase' = IF ccArg[g].op = "put" THEN ccArg[g].data
                 ELSE IF ccArg[g].op = "delete" THEN NoData
                 ELSE ccBase
    /\ ccPc' = [ccPc EXCEPT ![g] = "idle"]
    /\ UNCHANGED <<ccCache, ccArg, ccCalls>>

----------------------------------------------------------------------------
(* cli: repository sync-to (src/cli/command_repository_sync.go)            *)
(*                                                                         *)
(* runSyncBlobs starts repositorySyncParallelism workers in an errgroup.   *)
(* A worker receives blobs from copyCh and copies each with syncCopyBlob,  *)
(* then receives blobs from deleteCh and deletes them; the first worker    *)
(* that returns an error cancels the group's context, which stops the      *)
(* goroutines feeding the channels.                                        *)

MaxSyBlobs == 3
MaxSyPar == 2
MaxSyDel == 1

SyBlobs == 1..MaxSyBlobs
SyWorkers == 1..MaxSyPar
SyNoBlob == 0
DeleteID == 0 - 1

\* bytes of a format blob; an absent blob has none
SrcFormatData == "format-a"
OtherFormatData == "format-b"
NoFormatBlob == ""
FormatData == {NoFormatBlob, SrcFormatData, OtherFormatData}

\* the blobs of the destination before sync-to runs
DstBefore(del) == IF del > 0 THEN {DeleteID} ELSE {}

SyIdle ==
    /\ syTodo = <<>>
    /\ syDelTodo = 0
    /\ syClosed = FALSE
    /\ syDst = {}
    /\ syTimed = {}
    /\ syCounted = {}
    /\ syPc = [w \in SyWorkers |-> "copy"]
    /\ syHas = [w \in SyWorkers |-> SyNoBlob]
    /\ syCancelled = FALSE
    /\ syNotices = 0
    /\ syResult = "running"
    /\ syCfg = [times |-> FALSE, supported |-> TRUE, missing |-> {},
                dryRun |-> FALSE, mustExist |-> FALSE, par |-> 0,
                dstFormat |-> NoFormatBlob, del |-> 0]
    /\ syDstFormat = NoFormatBlob

SyInit ==
    /\ syTodo = [i \in SyBlobs |-> i]
    /\ syDelTodo \in 0..MaxSyDel
    /\ syClosed = FALSE
    /\ syDst = DstBefore(syDelTodo)
    /\ syTimed = {}
    /\ syCounted = {}
    /\ syPc = [w \in SyWorkers |-> "new"]
    /\ syHas = [w \in SyWorkers |-> SyNoBlob]
    /\ syCancelled = FALSE
    /\ syNotices = 0
    /\ syResult = "start"
    /\ syDstFormat \in FormatData
    /\ syCfg \in [times : BOOLEAN, supported : BOOLEAN, missing : SUBSET {1},
                   dryRun : BOOLEAN, mustExist : BOOLEAN, par : 0..MaxSyPar,
                   dstFormat : {syDstFormat}, del : {syDelTodo}]

\* bytes.Equal(srcData, dstData)
BytesEqual_Always(a, b) == TRUE

BytesEqual(a, b) == a = b

\* ensureRepositoriesHaveSameFormatBlob: the error it returns, NoError if none
FormatBlobError(dstData, mustExist) ==
    IF dstData = NoFormatBlob
    THEN IF mustExist THEN "destination repository does not have a format blob"
         ELSE NoError
    ELSE IF BytesEqual(SrcFormatData, dstData) THEN NoError
         ELSE "destination repository contains incompatible data"

\* runSyncWithStorage up to where runSyncBlobs starts its workers: the format
\* blobs are compared (and the source's one is saved in a destination that
\* has none), the blobs are listed, and with --dry-run the command returns
SyStart ==
    /\ syResult = "start"
    /\ LET err == FormatBlobError(syDstFormat, syCfg.mustExist)
           go == err = NoError /\ ~syCfg.dryRun
       IN  /\ syDstFormat' = IF syDstFormat = NoFormatBlob /\ ~syCfg.mustExist
                              THEN SrcFormatData
                              ELSE syDstFormat
           /\ syResult' = IF err # NoError THEN err
                          ELSE IF syCfg.dryRun THEN "ok"
                          ELSE "running"
           /\ syPc' = IF go
                      THEN [w \in SyWorkers |-> IF w <= syCfg.par THEN "copy" ELSE "done"]
                      ELSE syPc
    /\ UNCHANGED <<syTodo, syDelTodo, syClosed, syDst, syTimed, syCounted, syHas,
                   syCancelled, syNotices, syCfg>>

\* for m := range copyCh: the worker receives the next blob
SyReceive(w) ==
    /\ syPc[w] = "copy"
    /\ ~syClosed
    /\ syTodo # <<>>
    /\ syHas' = [syHas EXCEPT ![w] = Head(syTodo)]
    /\ syTodo' = Tail(syTodo)
    /\ syPc' = [syPc EXCEPT ![w] = "copying"]
    /\ UNCHANGED <<syDelTodo, syClosed, syDst, syTimed, syCounted, syCancelled,
                   syNotices, syResult, syCfg, syDstFormat>>

\* sliceToChannel: the feeding goroutine closes copyCh when the slice is sent
\* or the context is done
SyClose ==
    /\ ~syClosed
    /\ syTodo = <<>> \/ syCancelled
    /\ syClosed' = TRUE
    /\ UNCHANGED <<syTodo, syDelTodo, syDst, syTimed, syCounted, syPc, syHas,
                   syCancelled, syNotices, syResult, syCfg, syDstFormat>>

\* syncCopyBlob returns the wrapped error of dst.SetTime whenever SetTime
\* fails, SetTimeUnsupported included
SetTimeError(times, supported) == times /\ ~supported

\* c.syncCopyBlob(ctx, m, src, dst) and what the worker does with its result
SyCopyBlob(w) ==
    /\ syPc[w] = "copying"
    /\ LET blob == syHas[w]
           found == blob \notin syCfg.missing
           failed == found /\ SetTimeError(syCfg.times, syCfg.supported)
       IN  /\ syDst' = IF found THEN syDst \cup {blob} ELSE syDst
           /\ syTimed' = IF found /\ syCfg.times /\ syCfg.supported
                         THEN syTimed \cup {blob}
                         ELSE syTimed
           /\ syNotices' = IF found /\ syCfg.times /\ ~syCfg.supported /\ syNotices = 0
                           THEN 1
                           ELSE syNotices
           /\ syCounted' = IF failed THEN syCounted ELSE syCounted \cup {blob}
           /\ syPc' = [syPc EXCEPT ![w] = IF failed THEN "failed" ELSE "copy"]
           /\ syCancelled' = (syCancelled \/ failed)
    /\ syHas' = [syHas EXCEPT ![w] = SyNoBlob]
    /\ UNCHANGED <<syTodo, syDelTodo, syClosed, syResult, syCfg, syDstFormat>>

\* copyCh is closed: the worker goes on to deleteCh
SyCopyDone(w) ==
    /\ syPc[w] = "copy"
    /\ syClosed
    /\ syPc' = [syPc EXCEPT ![w] = "delete"]
    /\ UNCHANGED <<syTodo, syDelTodo, syClosed, syDst, syTimed, syCounted, syHas,
                   syCancelled, syNotices, syResult, syCfg, syDstFormat>>

\* for m := range deleteCh: syncDeleteBlob
SyDeleteBlob(w) ==
    /\ syPc[w] = "delete"
    /\ syDelTodo > 0
    /\ syDelTodo' = syDelTodo - 1
    /\ syDst' = syDst \ {DeleteID}
    /\ UNCHANGED <<syTodo, syClosed, syTimed, syCounted, syPc, syHas, syCancelled,
                   syNotices, syResult, syCfg, syDstFormat>>

\* deleteCh is closed: the worker returns nil
SyWorkerDone(w) ==
    /\ syPc[w] = "delete"
    /\ syDelTodo = 0 \/ syCancelled
    /\ syPc' = [syPc EXCEPT ![w] = "done"]
    /\ UNCHANGED <<syTodo, syDelTodo, syClosed, syDst, syTimed, syCounted, syHas,
                   syCancelled, syNotices, syResult, syCfg, syDstFormat>>

\* eg.Wait() and the return of runSyncBlobs
SyWait ==
    /\ syResult = "running"
    /\ \A w \in SyWorkers : syPc[w] \in {"done", "failed"}
    /\ syResult' = IF \E w \in SyWorkers : syPc[w] = "failed" THEN "error" ELSE "ok"
    /\ UNCHANGED <<syTodo, syDelTodo, syClosed, syDst, syTimed, syCounted, syPc, syHas,
                   syCancelled, syNotices, syCfg, syDstFormat>>

----------------------------------------------------------------------------
(* internal/cache: PackedStorage (src/internal/cache/                      *)
(* packed_cache_storage.go)                                                *)
(*                                                                         *)
(* One PackedStorage at a time works on a directory of pack files and an   *)
(* index file.  Every call is one step.  The index package is not part of  *)
(* the sources at hand: saveIndex and loadIndex are taken to write and to  *)
(* read back the entries of ps.index unchanged, the blob ids being valid   *)
(* content ids.                                                            *)

MaxPsLen == 1
MaxPsOps == 2
packSize == 1

PsIDs == { <<"c", 1>>, <<"c", 2>> }
PsTags == {"x", "y"}
PsDatas == { [i \in 1..n |-> <<k, i>>] : n \in 0..MaxPsLen, k \in PsTags }
PsOffsets == -1..(MaxPsLen + 1)
PsLengths == -1..(MaxPsLen + 1)
NoPackID == <<"pack", 0>>
NoEntries == [id \in {} |-> <<>>]
ErrOther == "error"

packEntry(packID, offset, length) == [packID |-> packID, offset |-> offset, length |-> length]

PsCall(op, id, res, offset, length, found) ==
    [op |-> op, id |-> id, err |-> res.err, out |-> res.out,
     offset |-> offset, length |-> length, found |-> found]

PsIdle ==
    /\ psOpen = TRUE
    /\ psIndex = NoEntries
    /\ psPacks = NoEntries
    /\ psIndexFile = NoEntries
    /\ psCurrent = NoPackID
    /\ psPut = NoEntries
    /\ psBefore = NoEntries
    /\ psOps = 0
    /\ psLast = PsCall("none", <<"c", 1>>, Result(NoError, <<>>), 0, 0, FALSE)

\* io.CopyN(output, f, length) after f.Seek(from): the bytes of the file
\* from position from on; a negative length copies nothing and is no error
CopyN(file, from, length) ==
    IF length <= 0 THEN <<>> ELSE SubSeq(file, from + 1, from + length)

PackedGetBlob(index, packs, id, offset, length) ==
    IF id \notin DOMAIN index
    THEN Result(ErrBlobNotFound, <<>>)
    ELSE LET entry == index[id]
             len == IF length < 0 THEN entry.length - offset ELSE length
         IN  IF offset < 0 \/ offset + len > entry.length
             THEN Result(ErrOther, <<>>)
             ELSE Result(NoError, CopyN(packs[entry.packID], entry.offset + offset, len))

\* rotatePackFile names the new pack after the clock; the names are distinct
NewPackID(packs) == <<"pack", Cardinality(DOMAIN packs) + 1>>

PsPutBlob(id, data) ==
    /\ psOpen
    /\ psOps < MaxPsOps
    /\ psOps' = psOps + 1
    /\ LET rotate == psCurrent = NoPackID
                       \/ Len(psPacks[psCurrent]) + Len(data) > packSize
           pack == IF rotate THEN NewPackID(psPacks) ELSE psCurrent
           old == IF rotate THEN <<>> ELSE psPacks[psCurrent]
       IN  /\ psCurrent' = pack
           /\ psPacks' = Store(psPacks, pack, old \o data)
           /\ psIndex' = Store(psIndex, id, packEntry(pack, Len(old), Len(data)))
    /\ psPut' = Store(psPut, id, data)
    /\ psLast' = PsCall("put", id, Result(NoError, <<>>), 0, 0, id \in DOMAIN psIndex)
    /\ UNCHANGED <<psOpen, psIndexFile, psBefore>>

PsGetBlob(id, offset, length) ==
    /\ psOpen
    /\ psOps < MaxPsOps
    /\ psOps' = psOps + 1
    /\ psLast' = PsCall("get", id, PackedGetBlob(psIndex, psPacks, id, offset, length),
                        offset, length, id \in DOMAIN psIndex)
    /\ UNCHANGED <<psOpen, psIndex, psPacks, psIndexFile, psCurrent, psPut, psBefore>>

\* what DeleteBlob returns for an id, present or not
DeleteResult(present) == NoError

PsDeleteBlob(id) ==
    /\ psOpen
    /\ psOps < MaxPsOps
    /\ psOps' = psOps + 1
    /\ psIndex' = Remove(psIndex, id)
    /\ psPut' = Remove(psPut, id)
    /\ psLast' = PsCall("delete", id, Result(DeleteResult(id \in DOMAIN psIndex), <<>>),
                        0, 0, id \in DOMAIN psIndex)
    /\ UNCHANGED <<psOpen, psPacks, psIndexFile, psCurrent, psBefore>>

\* Close closes the current pack and saves the index
PsClose ==
    /\ psOpen
    /\ psOpen' = FALSE
    /\ psCurrent' = NoPackID
    /\ psIndexFile' = psIndex
    /\ psBefore' = psPut
    /\ psLast' = PsCall("close", <<"c", 1>>, Result(NoError, <<>>), 0, 0, FALSE)
    /\ UNCHANGED <<psIndex, psPacks, psPut, psOps>>

\* loadExistingPacks: the entries of the index file, and one entry for
\* every pack file, under the id of the pack
loadExistingPacks(indexFile, packs) ==
    [id \in (DOMAIN indexFile) \cup (DOMAIN packs) |->
        IF id \in DOMAIN packs
        THEN packEntry(id, 0, Len(packs[id]))
        ELSE indexFile[id]]

\* NewPackedStorage on the directory of a closed PackedStorage
PsReopen ==
    /\ ~psOpen
    /\ psOpen' = TRUE
    /\ psIndex' = loadExistingPacks(psIndexFile, psPacks)
    /\ psLast' = PsCall("open", <<"c", 1>>, Result(NoError, <<>>), 0, 0, FALSE)
    /\ UNCHANGED <<psPacks, psIndexFile, psCurrent, psPut, psBefore, psOps>>

----------------------------------------------------------------------------
(* internal/user: user profiles (src/unnamed/part_009)                     *)
(*                                                                         *)
(* One repository writer sets and deletes user profiles.  SetUserProfile   *)
(* is a sequence of manifest store calls, each of which can fail: one      *)
(* find, one put, and one delete per manifest found.  The manifest store   *)
(* is not part of the sources at hand; after section 4.8 of the            *)
(* specification put stores a new manifest under a new id, find returns    *)
(* the manifests whose labels match, and delete removes one.               *)

MaxUsCalls == 3

Usernames == {"alice@host", "bob@host"}
InvalidUsername == "Alice"
UserManifest(id, user) == [id |-> id, user |-> user]
PreExisting == { UserManifest(1, "alice@host"), UserManifest(2, "alice@host"),
                 UserManifest(3, "bob@host") }
NoManifestID == 0

\* ValidateUsername: lowercase user@hostname
ValidateUsername(name) == name \in Usernames

\* w.FindManifests(type=user, username=...)
FindManifests(manifests, user) == { m.id : m \in { x \in manifests : x.user = user } }

UsIdle ==
    /\ usManifests = {}
    /\ usPc = "idle"
    /\ usUser = "alice@host"
    /\ usFound = {}
    /\ usNew = NoManifestID
    /\ usHad = FALSE
    /\ usNextID = Cardinality(PreExisting) + 1
    /\ usCalls = 0
    /\ usResult = "none"

UsInit ==
    /\ usManifests \in SUBSET PreExisting
    /\ usPc = "idle"
    /\ usUser = "alice@host"
    /\ usFound = {}
    /\ usNew = NoManifestID
    /\ usHad = FALSE
    /\ usNextID = Cardinality(PreExisting) + 1
    /\ usCalls = 0
    /\ usResult = "none"

\* SetUserProfile up to and including FindManifests
UsSetUserProfile(name, ok) ==
    /\ usPc = "idle"
    /\ usCalls < MaxUsCalls
    /\ usCalls' = usCalls + 1
    /\ usUser' = name
    /\ usNew' = NoManifestID
    /\ IF ~ValidateUsername(name) \/ ~ok
       THEN /\ usPc' = "idle"
            /\ usResult' = "error"
            /\ usFound' = {}
            /\ usHad' = FALSE
       ELSE /\ usPc' = "put"
            /\ usResult' = "running"
            /\ usFound' = FindManifests(usManifests, name)
            /\ usHad' = (FindManifests(usManifests, name) # {})
    /\ UNCHANGED <<usManifests, usNextID>>

\* w.PutManifest
UsPutManifest(ok) ==
    /\ usPc = "put"
    /\ IF ok
       THEN /\ usManifests' = usManifests \cup {UserManifest(usNextID, usUser)}
            /\ usNew' = usNextID
            /\ usNextID' = usNextID + 1
            /\ usPc' = "delete"
            /\ UNCHANGED usResult
       ELSE /\ usPc' = "idle"
            /\ usResult' = "error"
            /\ UNCHANGED <<usManifests, usNew, usNextID>>
    /\ UNCHANGED <<usUser, usFound, usHad, usCalls>>

ToDelete_FoundAfterPut(found, new) == found \cup {new}

\* for _, m := range manifests: the manifests found before the put
ToDelete(found, new) == found

\* w.DeleteManifest(ctx, m.ID) for the next manifest of the loop
UsDeleteManifest(id, ok) ==
    /\ usPc = "delete"
    /\ id \in ToDelete(usFound, usNew)
    /\ IF ok
       THEN /\ usManifests' = { m \in usManifests : m.id # id }
            /\ usFound' = usFound \ {id}
            /\ usNew' = IF id = usNew THEN NoManifestID ELSE usNew
            /\ UNCHANGED <<usPc, usResult>>
       ELSE /\ usPc' = "idle"
            /\ usResult' = "error"
            /\ UNCHANGED <<usManifests, usFound, usNew>>
    /\ UNCHANGED <<usUser, usHad, usNextID, usCalls>>

\* the loop is over: p.ManifestID = id; return nil
UsReturn ==
    /\ usPc = "delete"
    /\ ToDelete(usFound, usNew) = {}
    /\ usPc' = "idle"
    /\ usResult' = "ok"
    /\ UNCHANGED <<usManifests, usUser, usFound, usNew, usHad, usNextID, usCalls>>

\* DeleteUserProfile, all of it
UsDeleteUserProfile(name) ==
    /\ usPc = "idle"
    /\ usCalls < MaxUsCalls
    /\ usCalls' = usCalls + 1
    /\ usManifests' = { m \in usManifests : m.user # name }
    /\ usResult' = "deleted"
    /\ UNCHANGED <<usPc, usUser, usFound, usNew, usHad, usNextID>>

----------------------------------------------------------------------------
(* snapshot/snapshotmaintenance: Run in auto mode                          *)
(* (src/snapshot/snapshotmaintenance/snapshotmaintenance.go)               *)
(*                                                                         *)
(* The clock advances 30 minutes at a time and maintenance is triggered    *)
(* in auto mode after every advance, as TestMaintenanceAutoLiveness does.  *)
(* Run is in the sources: it runs snapshot GC first when the mode is full  *)
(* and returns at once when snapshot GC fails, and otherwise hands over to *)
(* the maintenance engine.  The engine (RunExclusive, maintenance.Run, the *)
(* schedule and the default parameters) is not part of the sources at      *)
(* hand; after sections 4.9 and 7 of the specification it keeps the end of *)
(* the last run of every task, runs a task in auto mode when its interval  *)
(* has elapsed, and on a failing task goes on with the other tasks and     *)
(* returns a composite error at the end.  The intervals are the defaults   *)
(* of the engine: one hour for the quick cycle, 24 hours for the full one. *)

MaxAmTime == 120

\* time is counted in units of 30 minutes
TriggerPeriod == 1
Hour == 2
QuickInterval == 1 * Hour
FullInterval == 24 * Hour
maxTimeSinceLastRun == 48 * Hour

AmNoRun == 0 - 1

TaskDeleteOrphanedBlobsFull == "TaskDeleteOrphanedBlobsFull"
TaskDeleteOrphanedBlobsQuick == "TaskDeleteOrphanedBlobsQuick"
TaskDropDeletedContentsFull == "TaskDropDeletedContentsFull"
TaskIndexCompaction == "TaskIndexCompaction"
TaskRewriteContentsFull == "TaskRewriteContentsFull"
TaskRewriteContentsQuick == "TaskRewriteContentsQuick"
TaskSnapshotGarbageCollection == "TaskSnapshotGarbageCollection"

QuickTasks == {TaskDeleteOrphanedBlobsQuick, TaskRewriteContentsQuick, TaskIndexCompaction}
FullTasks == {TaskSnapshotGarbageCollection, TaskRewriteContentsFull,
              TaskDropDeletedContentsFull, TaskDeleteOrphanedBlobsFull}
AmTasks == QuickTasks \cup FullTasks

ModeNone == "none"
ModeQuick == "quick"
ModeFull == "full"

Interval(t) == IF t \in FullTasks THEN FullInterval ELSE QuickInterval

\* the interval of the task has elapsed since its last run
Due(runs, now, t) == runs[t] = AmNoRun \/ now - runs[t] >= Interval(t)

\* RunExclusive in auto mode: full when a full task is due, else quick
AutoMode(runs, now) ==
    IF \E t \in FullTasks : Due(runs, now, t) THEN ModeFull
    ELSE IF \E t \in QuickTasks : Due(runs, now, t) THEN ModeQuick
    ELSE ModeNone

\* maintenance.Run: the tasks of the engine in a mode (full is quick and more)
EngineTasks(mode) ==
    IF mode = ModeFull THEN AmTasks \ {TaskSnapshotGarbageCollection}
    ELSE IF mode = ModeQuick THEN QuickTasks
    ELSE {}

\* Run: snapshot GC before full maintenance
RunsSnapshotGC_Never(mode) == FALSE
RunsSnapshotGC(mode) == mode = ModeFull

\* Run: what is executed when the tasks in F fail
Executed(mode, F) ==
    IF RunsSnapshotGC(mode)
    THEN IF TaskSnapshotGarbageCollection \in F
         THEN {TaskSnapshotGarbageCollection}
         ELSE {TaskSnapshotGarbageCollection} \cup EngineTasks(mode)
    ELSE EngineTasks(mode)

AmIdle ==
    /\ amNow = 0
    /\ amPc = "advance"
    /\ amRuns = [t \in AmTasks |-> AmNoRun]
    /\ amBroken = {}
    /\ amMode = ModeNone
    /\ amExecuted = {}
    /\ amResult = NoError

\* a new repository; at most one task is one that can fail
AmInit ==
    /\ amNow = 0
    /\ amPc = "advance"
    /\ amRuns = [t \in AmTasks |-> AmNoRun]
    /\ amBroken \in {{}} \cup { {t} : t \in AmTasks }
    /\ amMode = ModeNone
    /\ amExecuted = {}
    /\ amResult = NoError

\* ft.Advance(30 * time.Minute)
AmAdvance ==
    /\ amPc = "advance"
    /\ amNow + TriggerPeriod <= MaxAmTime
    /\ amNow' = amNow + TriggerPeriod
    /\ amPc' = "run"
    /\ UNCHANGED <<amRuns, amBroken, amMode, amExecuted, amResult>>

\* snapshotmaintenance.Run(ctx, dw, maintenance.ModeAuto, false) with the tasks in F failing
AmRun(mode, F) ==
    /\ amPc = "run"
    /\ mode = AutoMode(amRuns, amNow)
    /\ amMode' = mode
    /\ amExecuted' = Executed(mode, F)
    /\ amRuns' = [t \in AmTasks |->
                    IF t \in Executed(mode, F) \ F THEN amNow ELSE amRuns[t]]
    /\ amResult' = IF Executed(mode, F) \cap F = {} THEN NoError ELSE ErrOther
    /\ amPc' = "advance"
    /\ UNCHANGED <<amNow, amBroken>>

----------------------------------------------------------------------------
(* Content index: the merged view (specification, section 4.6)             *)
(*                                                                         *)
(* The index package is not part of the sources at hand.  After section    *)
(* 4.6 a session loads index blobs one by one; for one content id each     *)
(* blob contributes an entry, and the session keeps the entry that wins by *)
(* the precedence rule: larger timestamp_seconds, then deleted, then       *)
(* larger (pack_blob_id, pack_offset).  Two sessions load the blobs in     *)
(* orders of their own.                                                    *)

MaxIxLoads == 2

IxSessions == {"s1", "s2"}
IxPacks == {1, 2}
IxTimestamps == {1, 2}
IxEntry == [timestamp_seconds : IxTimestamps, deleted : BOOLEAN, pack_blob_id : IxPacks]
NoIndexEntry == [timestamp_seconds |-> 0, deleted |-> FALSE, pack_blob_id |-> 0]

\* precedence of section 4.6: a wins over b
contentInfoGreaterThan_NoArbitration(a, b) ==
    IF a.timestamp_seconds # b.timestamp_seconds
    THEN a.timestamp_seconds > b.timestamp_seconds
    ELSE a.deleted /\ ~b.deleted
contentInfoGreaterThan(a, b) ==
    IF a.timestamp_seconds # b.timestamp_seconds
    THEN a.timestamp_seconds > b.timestamp_seconds
    ELSE IF a.deleted # b.deleted
    THEN a.deleted
    ELSE a.pack_blob_id > b.pack_blob_id

\* the merged entry after one more entry is observed
Merge(best, e) ==
    IF best = NoIndexEntry \/ contentInfoGreaterThan(e, best) THEN e ELSE best

IxIdle ==
    /\ ixSeen = [s \in IxSessions |-> {}]
    /\ ixFirst = [s \in IxSessions |-> NoIndexEntry]
    /\ ixBest = [s \in IxSessions |-> NoIndexEntry]

\* a session loads an index blob with entry e for the content id
IxLoad(s, e) ==
    /\ e \notin ixSeen[s]
    /\ Cardinality(ixSeen[s]) < MaxIxLoads
    /\ ixSeen' = [ixSeen EXCEPT ![s] = @ \cup {e}]
    /\ ixFirst' = [ixFirst EXCEPT ![s] = IF ixSeen[s] = {} THEN e ELSE @]
    /\ ixBest' = [ixBest EXCEPT ![s] = Merge(@, e)]

\* a session is closed and opened again: it starts from no index blob
IxReopen(s) ==
    /\ ixSeen[s] # {}
    /\ ixSeen' = [ixSeen EXCEPT ![s] = {}]
    /\ ixFirst' = [ixFirst EXCEPT ![s] = NoIndexEntry]
    /\ ixBest' = [ixBest EXCEPT ![s] = NoIndexEntry]

----------------------------------------------------------------------------
(* repo/maintenance: the workers of the content rewrite                    *)
(*                                                                         *)
(* The same full maintenance run, with the content rewrite task taken      *)
(* apart as race_condition_test.go describes it: the task lists the        *)
(* contents to rewrite, then workers process the list one content at a     *)
(* time, each reading the pack blob the listing named.  After sections     *)
(* 4.9 and 7 of the specification the workers belong to the task: the      *)
(* task is over when they are done, and only then the next task starts.    *)

RwIdle ==
    /\ rwTodo = {}
    /\ rwBad = FALSE

\* runTaskRewriteContentsFull: the contents S are listed with the pack each is in
RwStart(S) ==
    /\ mtPc = "rewrite"
    /\ \A c \in S : Rewritable(c)
    /\ mtNextPack + Cardinality(S) <= MaxPacks + 1
    /\ rwTodo' = { [content |-> c, pack |-> mtIndex[c].pack] : c \in S }
    /\ mtPc' = "rewriting"
    /\ UNCHANGED <<mtNow, mtIndex, mtBlobs, mtNextPack, mtLive, mtGcRuns, mtOrphanedAt,
                   mtClient, mtRead, mtDroppedFrom, mtRuns, mtPending, rwBad>>

\* a worker rewrites one listed content: it reads the pack blob and writes
\* the content into a fresh pack
RwWorker(item) ==
    /\ item \in rwTodo
    /\ rwTodo' = rwTodo \ {item}
    /\ IF ~mtBlobs[item.pack].exists
       THEN /\ rwBad' = TRUE
            /\ UNCHANGED <<mtIndex, mtBlobs, mtNextPack, mtOrphanedAt>>
       ELSE LET np  == mtNextPack
                c   == item.content
                idx == [mtIndex EXCEPT ![c] = Entry(np, mtNow, mtIndex[c].present /\ mtIndex[c].deleted)]
            IN  /\ mtIndex' = idx
                /\ mtBlobs' = [mtBlobs EXCEPT ![np] = [exists |-> TRUE, ts |-> mtNow]]
                /\ mtNextPack' = mtNextPack + 1
                /\ mtOrphanedAt' = [p \in Packs |->
                                      IF p \in Referenced(mtIndex) \ Referenced(idx)
                                      THEN mtNow ELSE mtOrphanedAt[p]]
                /\ UNCHANGED rwBad
    /\ UNCHANGED <<mtNow, mtPc, mtLive, mtGcRuns, mtClient, mtRead, mtDroppedFrom,
                   mtRuns, mtPending>>

\* the rewrite task returns when its workers are done
RewriteFinished_Early(todo) == TRUE
RewriteFinished(todo) == todo = {}

\* runFullMaintenance goes on to runTaskDropDeletedContentsFull
RwDone ==
    /\ mtPc = "rewriting"
    /\ RewriteFinished(rwTodo)
    /\ mtPc' = "drop"
    /\ UNCHANGED <<mtNow, mtIndex, mtBlobs, mtNextPack, mtLive, mtGcRuns, mtOrphanedAt,
                   mtClient, mtRead, mtDroppedFrom, mtRuns, mtPending, rwTodo, rwBad>>

----------------------------------------------------------------------------
(* internal/user: concurrent SetUserProfile calls (src/unnamed/part_009)   *)
(*                                                                         *)
(* Two callers set the profile of one username.  SetUserProfile takes no   *)
(* lock: a call is its FindManifests, its PutManifest and one              *)
(* DeleteManifest per manifest found, and the calls of the two callers     *)
(* interleave.  Manifest ids are given in the order of the puts, so the    *)
(* latest manifest is the one with the largest id; deleting a manifest     *)
(* that is already gone succeeds.                                          *)

MaxUpID == 5

UpCallers == {"p1", "p2"}
UpPreExisting == {1}

UpIdle ==
    /\ upManifests = {}
    /\ upPc = [p \in UpCallers |-> "idle"]
    /\ upFound = [p \in UpCallers |-> {}]
    /\ upNew = [p \in UpCallers |-> NoManifestID]
    /\ upNextID = Cardinality(UpPreExisting) + 1

UpInit ==
    /\ upManifests \in SUBSET UpPreExisting
    /\ upPc = [p \in UpCallers |-> "idle"]
    /\ upFound = [p \in UpCallers |-> {}]
    /\ upNew = [p \in UpCallers |-> NoManifestID]
    /\ upNextID = Cardinality(UpPreExisting) + 1

\* SetUserProfile up to and including FindManifests
UpFindManifests(p, ok) ==
    /\ upPc[p] \in {"idle", "ok", "error"}
    /\ upNextID + Cardinality({q \in UpCallers : upPc[q] = "put"}) <= MaxUpID
    /\ upPc' = [upPc EXCEPT ![p] = IF ok THEN "put" ELSE "error"]
    /\ upFound' = [upFound EXCEPT ![p] = IF ok THEN upManifests ELSE {}]
    /\ upNew' = [upNew EXCEPT ![p] = NoManifestID]
    /\ UNCHANGED <<upManifests, upNextID>>

\* w.PutManifest
UpPutManifest(p, ok) ==
    /\ upPc[p] = "put"
    /\ IF ok
       THEN /\ upManifests' = upManifests \cup {upNextID}
            /\ upNew' = [upNew EXCEPT ![p] = upNextID]
            /\ upNextID' = upNextID + 1
            /\ upPc' = [upPc EXCEPT ![p] = "delete"]
       ELSE /\ upPc' = [upPc EXCEPT ![p] = "error"]
            /\ UNCHANGED <<upManifests, upNew, upNextID>>
    /\ UNCHANGED upFound

\* w.DeleteManifest(ctx, m.ID) for the next manifest found
UpDeleteManifest(p, id, ok) ==
    /\ upPc[p] = "delete"
    /\ id \in upFound[p]
    /\ IF ok
       THEN /\ upManifests' = upManifests \ {id}
            /\ upFound' = [upFound EXCEPT ![p] = upFound[p] \ {id}]
            /\ UNCHANGED upPc
       ELSE /\ upPc' = [upPc EXCEPT ![p] = "error"]
            /\ UNCHANGED <<upManifests, upFound>>
    /\ UNCHANGED <<upNew, upNextID>>

\* the loop is over: p.ManifestID = id; return nil
UpReturn(p) ==
    /\ upPc[p] = "delete"
    /\ upFound[p] = {}
    /\ upPc' = [upPc EXCEPT ![p] = "ok"]
    /\ UNCHANGED <<upManifests, upFound, upNew, upNextID>>

\* manifest.PickLatestID: the manifest with the latest modification time
PickLatestID(manifests) == CHOOSE id \in manifests : \A other \in manifests : other <= id

\* GetUserProfile: the manifest it loads, NoManifestID for ErrUserNotFound
GetUserProfile(manifests) ==
    IF manifests = {} THEN NoManifestID ELSE PickLatestID(manifests)

----------------------------------------------------------------------------
(* snapshot/restore: FilesystemOutput (src/unnamed/part_007) as the copier *)
(* (src/unnamed/part_006) calls it                                         *)
(*                                                                         *)
(* The target holds a directory d with files f and g in it.  Next to       *)
(* every entry there can be the placeholder a shallow restore leaves, the  *)
(* entry's name with ShallowEntrySuffix.  SafeRemoveAll is not part of the *)
(* sources at hand: it is taken to remove the placeholder of the path it   *)
(* is given, not the path itself.  Every call is one step; MkdirAll, the   *)
(* atomic file write and setAttributes can fail.                           *)

MaxFoOps == 3

FoDir == <<"d">>
FoFiles == { <<"d", "f">>, <<"d", "g">> }
FoPaths == {FoDir} \cup FoFiles
FoDatas == {"data1", "data2"}
NoSuffix == ""
ShallowEntrySuffix == ".kopia-entry"
FoName(path, suffix) == [path |-> path, suffix |-> suffix]
FoNames == { FoName(p, x) : p \in FoPaths, x \in {NoSuffix, ShallowEntrySuffix} }
FoAbsent == "absent"
FoIsDir == "dir"

FoCall(op, path, err, data) == [op |-> op, path |-> path, err |-> err, data |-> data]

FoIdle ==
    /\ foFs = [n \in FoNames |-> FoAbsent]
    /\ foRestored = [p \in FoFiles |-> FoAbsent]
    /\ foLast = FoCall("none", FoDir, NoError, FoAbsent)
    /\ foOps = 0
    /\ foCfg = [overwriteFiles |-> FALSE, overwriteDirectories |-> FALSE]

FoInit ==
    /\ foFs \in [FoNames -> {FoAbsent, FoIsDir, "data1", "placeholder"}]
    /\ foFs[FoName(FoDir, NoSuffix)] \in {FoAbsent, FoIsDir}
    /\ \A p \in FoFiles :
          /\ foFs[FoName(p, NoSuffix)] \in {FoAbsent, "data1"}
          /\ foFs[FoName(FoDir, NoSuffix)] = FoAbsent => foFs[FoName(p, NoSuffix)] = FoAbsent
          /\ foFs[FoName(p, ShallowEntrySuffix)]
                \in IF foFs[FoName(FoDir, NoSuffix)] = FoAbsent THEN {FoAbsent} ELSE {FoAbsent, "placeholder"}
    /\ foFs[FoName(FoDir, ShallowEntrySuffix)] \in {FoAbsent, "placeholder"}
    /\ foRestored = [p \in FoFiles |-> FoAbsent]
    /\ foLast = FoCall("none", FoDir, NoError, FoAbsent)
    /\ foOps = 0
    /\ foCfg \in [overwriteFiles : BOOLEAN, overwriteDirectories : BOOLEAN]

\* name is path or lies under it
FoUnder(name, target) ==
    /\ Len(name.path) >= Len(target.path)
    /\ SubSeq(name.path, 1, Len(target.path)) = target.path
    /\ IF Len(name.path) = Len(target.path)
       THEN name.suffix = target.suffix
       ELSE target.suffix = NoSuffix

\* os.RemoveAll
RemoveAll(fs, target) == [n \in FoNames |-> IF FoUnder(n, target) THEN FoAbsent ELSE fs[n]]

\* a SafeRemoveAll that removes the path it is given
SafeRemoveAll_Path(fs, path) == RemoveAll(fs, FoName(path, NoSuffix))

\* SafeRemoveAll(path): removes the shallow restore placeholder of path
SafeRemoveAll(fs, path) == RemoveAll(fs, FoName(path, ShallowEntrySuffix))

isEmptyDirectory(fs, path) ==
    \A n \in FoNames : (n # FoName(path, NoSuffix) /\ FoUnder(n, FoName(path, NoSuffix)))
                           => fs[n] = FoAbsent

\* o.createDirectory(ctx, path): the error it returns, NoError if none
createDirectoryError(fs, path, ok) ==
    LET at == fs[FoName(path, NoSuffix)]
    IN  IF at = FoAbsent
        THEN IF ok THEN NoError ELSE "mkdir"
        ELSE IF at = FoIsDir
        THEN IF ~foCfg.overwriteDirectories /\ ~isEmptyDirectory(fs, path)
             THEN "non-empty directory already exists, not overwriting it"
             ELSE NoError
        ELSE "unable to create directory"

BeginDirectory(path, ok) ==
    /\ foOps < MaxFoOps
    /\ foOps' = foOps + 1
    /\ LET err == createDirectoryError(foFs, path, ok)
       IN  /\ foFs' = IF err = NoError
                      THEN [foFs EXCEPT ![FoName(path, NoSuffix)] = FoIsDir]
                      ELSE foFs
           /\ foLast' = FoCall("begin", path, err, FoAbsent)
    /\ UNCHANGED <<foRestored, foCfg>>

\* o.copyFileContent(ctx, path, f): the error it returns, NoError if none
copyFileContentError(fs, path, ok) ==
    IF fs[FoName(path, NoSuffix)] # FoAbsent /\ ~foCfg.overwriteFiles
    THEN "unable to create, it already exists"
    ELSE IF fs[FoName(FoDir, NoSuffix)] # FoIsDir \/ ~ok
    THEN "atomicfile.Write"
    ELSE NoError

WriteFile(path, data, okWrite, okAttr) ==
    /\ foOps < MaxFoOps
    /\ foOps' = foOps + 1
    /\ LET copyErr == copyFileContentError(foFs, path, okWrite)
           written == IF copyErr = NoError
                      THEN [foFs EXCEPT ![FoName(path, NoSuffix)] = data]
                      ELSE foFs
           err == IF copyErr # NoError THEN copyErr
                  ELSE IF ~okAttr THEN "error setting attributes"
                  ELSE NoError
       IN  /\ foFs' = IF err = NoError THEN SafeRemoveAll(written, path) ELSE written
           /\ foRestored' = IF err = NoError
                            THEN [foRestored EXCEPT ![path] = data]
                            ELSE foRestored
           /\ foLast' = FoCall("write", path, err, data)
    /\ UNCHANGED foCfg

FinishDirectory(path, okAttr) ==
    /\ foOps < MaxFoOps
    /\ foOps' = foOps + 1
    /\ LET err == IF foFs[FoName(path, NoSuffix)] = FoAbsent \/ ~okAttr
                  THEN "error setting attributes"
                  ELSE NoError
       IN  /\ foFs' = IF err = NoError THEN SafeRemoveAll(foFs, path) ELSE foFs
           /\ foLast' = FoCall("finish", path, err, FoAbsent)
    /\ UNCHANGED <<foRestored, foCfg>>

----------------------------------------------------------------------------
(* Specifications                                                          *)

\* The variables each subsystem leaves alone.
notLc == <<twVars, mtVars, lsVars, ulVars, csVars, ccVars, syVars, psVars, usVars, amVars, ixVars, rwVars, upVars, foVars>>
notTw == <<lcVars, mtVars, lsVars, ulVars, csVars, ccVars, syVars, psVars, usVars, amVars, ixVars, rwVars, upVars, foVars>>
notMt == <<lcVars, twVars, lsVars, ulVars, csVars, ccVars, syVars, psVars, usVars, amVars, ixVars, rwVars, upVars, foVars>>
notLs == <<lcVars, twVars, mtVars, ulVars, csVars, ccVars, syVars, psVars, usVars, amVars, ixVars, rwVars, upVars, foVars>>
notUl == <<lcVars, twVars, mtVars, lsVars, csVars, ccVars, syVars, psVars, usVars, amVars, ixVars, rwVars, upVars, foVars>>
notCs == <<lcVars, twVars, mtVars, lsVars, ulVars, ccVars, syVars, psVars, usVars, amVars, ixVars, rwVars, upVars, foVars>>
notCc == <<lcVars, twVars, mtVars, lsVars, ulVars, csVars, syVars, psVars, usVars, amVars, ixVars, rwVars, upVars, foVars>>
notSy == <<lcVars, twVars, mtVars, lsVars, ulVars, csVars, ccVars, psVars, usVars, amVars, ixVars, rwVars, upVars, foVars>>
notPs == <<lcVars, twVars, mtVars, lsVars, ulVars, csVars, ccVars, syVars, usVars, amVars, ixVars, rwVars, upVars, foVars>>
notUs == <<lcVars, twVars, mtVars, lsVars, ulVars, csVars, ccVars, syVars, psVars, amVars, ixVars, rwVars, upVars, foVars>>
notAm == <<lcVars, twVars, mtVars, lsVars, ulVars, csVars, ccVars, syVars, psVars, usVars, ixVars, rwVars, upVars, foVars>>
notIx == <<lcVars, twVars, mtVars, lsVars, ulVars, csVars, ccVars, syVars, psVars, usVars, amVars, rwVars, upVars, foVars>>
notRw == <<lcVars, twVars, mtVars, lsVars, ulVars, csVars, ccVars, syVars, psVars, usVars, amVars, ixVars, upVars, foVars>>
notUp == <<lcVars, twVars, mtVars, lsVars, ulVars, csVars, ccVars, syVars, psVars, usVars, amVars, ixVars, rwVars, foVars>>
notFo == <<lcVars, twVars, mtVars, lsVars, ulVars, csVars, ccVars, syVars, psVars, usVars, amVars, ixVars, rwVars, upVars>>
notMtRw == <<lcVars, twVars, lsVars, ulVars, csVars, ccVars, syVars, psVars, usVars, amVars, ixVars, upVars, foVars>>

InitLC == LcInit /\ TwIdle /\ MtIdle /\ LsIdle /\ UlIdle /\ CsIdle /\ CcIdle /\ SyIdle /\ PsIdle /\ UsIdle /\ AmIdle /\ IxIdle /\ RwIdle /\ UpIdle /\ FoIdle

NextLC ==
    \/ \E w \in Wrappers, prefix \in ListPrefixes : LcListBlobs(w, prefix) /\ UNCHANGED notLc
    \/ \E w \in Wrappers : LcListBase(w) /\ UNCHANGED notLc
    \/ \E w \in Wrappers : LcStamp(w) /\ UNCHANGED notLc
    \/ \E w \in Wrappers : LcSave(w) /\ UNCHANGED notLc
    \/ \E w \in Wrappers : LcDispatch(w) /\ UNCHANGED notLc
    \/ \E w \in Wrappers, id \in BlobIDs : LcPutBlob(w, id) /\ UNCHANGED notLc
    \/ \E w \in Wrappers, id \in BlobIDs : LcDeleteBlob(w, id) /\ UNCHANGED notLc
    \/ \E w \in Wrappers : LcInvalidate(w) /\ UNCHANGED notLc
    \/ LcTick /\ UNCHANGED notLc

SpecLC == InitLC /\ [][NextLC]_vars

InitTW == TwInit /\ LcIdle /\ MtIdle /\ LsIdle /\ UlIdle /\ CsIdle /\ CcIdle /\ SyIdle /\ PsIdle /\ UsIdle /\ AmIdle /\ IxIdle /\ RwIdle /\ UpIdle /\ FoIdle

NextTW ==
    \/ \E w \in Workers : TwDequeue(w) /\ UNCHANGED notTw
    \/ \E g \in Goroutines : TwInvoke(g) /\ UNCHANGED notTw
    \/ \E g \in Goroutines : TwReport(g) /\ UNCHANGED notTw
    \/ \E g \in Goroutines : TwFinish(g) /\ UNCHANGED notTw
    \/ \E w \in Workers : TwCompleted(w) /\ UNCHANGED notTw
    \/ TwSubmit /\ UNCHANGED notTw
    \/ TwSubmitted /\ UNCHANGED notTw
    \/ TwWait /\ UNCHANGED notTw

SpecTW == InitTW /\ [][NextTW]_vars

InitMT == MtInit /\ LcIdle /\ TwIdle /\ LsIdle /\ UlIdle /\ CsIdle /\ CcIdle /\ SyIdle /\ PsIdle /\ UsIdle /\ AmIdle /\ IxIdle /\ RwIdle /\ UpIdle /\ FoIdle

NextMT ==
    \/ \E d \in Advances : MtAdvance(d) /\ UNCHANGED notMt
    \/ MtSnapshotGC /\ UNCHANGED notMt
    \/ \E S \in SUBSET Contents : MtRewrite(S) /\ UNCHANGED notMt
    \/ MtDropDeleted /\ UNCHANGED notMt
    \/ MtDeleteOrphaned /\ UNCHANGED notMt
    \/ \E c \in Contents : MtClientRead(c) /\ UNCHANGED notMt
    \/ \E c \in Contents : MtSnapshotReuse(c) /\ UNCHANGED notMt
    \/ MtSnapshotFlush /\ UNCHANGED notMt

SpecMT == InitMT /\ [][NextMT]_vars

InitRU == MtInit /\ LcIdle /\ TwIdle /\ LsIdle /\ UlIdle /\ CsIdle /\ CcIdle /\ SyIdle /\ PsIdle /\ UsIdle /\ AmIdle /\ IxIdle /\ RwIdle /\ UpIdle /\ FoIdle

NextRU ==
    \/ \E d \in Advances : MtAdvance(d) /\ UNCHANGED notMt
    \/ MtSnapshotGCAfterFlush /\ UNCHANGED notMt
    \/ \E S \in SUBSET Contents : MtRewrite(S) /\ UNCHANGED notMt
    \/ MtDropDeleted /\ UNCHANGED notMt
    \/ MtDeleteOrphaned /\ UNCHANGED notMt
    \/ \E c \in Contents : MtSnapshotReuse(c) /\ UNCHANGED notMt
    \/ MtSnapshotFlush /\ UNCHANGED notMt

SpecRU == InitRU /\ [][NextRU]_vars

InitDM == MtDeletedInit /\ LcIdle /\ TwIdle /\ LsIdle /\ UlIdle /\ CsIdle /\ CcIdle /\ SyIdle /\ PsIdle /\ UsIdle /\ AmIdle /\ IxIdle /\ RwIdle /\ UpIdle /\ FoIdle

NextDM ==
    \/ \E d \in DmAdvances : MtAdvanceWithin(d, MaxDmClock) /\ UNCHANGED notMt
    \/ MtSnapshotGC /\ UNCHANGED notMt
    \/ \E S \in SUBSET Contents : MtRewrite(S) /\ UNCHANGED notMt
    \/ MtDropDeleted /\ UNCHANGED notMt
    \/ MtDeleteOrphaned /\ UNCHANGED notMt
    \/ MtClientRead("c1") /\ UNCHANGED notMt

SpecDM == InitDM /\ [][NextDM]_vars

InitLS == LsIdle /\ LcIdle /\ TwIdle /\ MtIdle /\ UlIdle /\ CsIdle /\ CcIdle /\ SyIdle /\ PsIdle /\ UsIdle /\ AmIdle /\ IxIdle /\ RwIdle /\ UpIdle /\ FoIdle

NextLS ==
    \/ \E p \in Procs : LsFind(p) /\ UNCHANGED notLs
    \/ \E p \in Procs : LsTake(p) /\ UNCHANGED notLs
    \/ \E p \in Procs : LsRelease(p) /\ UNCHANGED notLs
    \/ \E p \in Procs : LsAbandon(p) /\ UNCHANGED notLs
    \/ \E p \in Procs : LsGiveUp(p) /\ UNCHANGED notLs
    \/ LsTick /\ UNCHANGED notLs

SpecLS == InitLS /\ [][NextLS]_vars

InitUL == UlInit /\ LcIdle /\ TwIdle /\ MtIdle /\ LsIdle /\ CsIdle /\ CcIdle /\ SyIdle /\ PsIdle /\ UsIdle /\ AmIdle /\ IxIdle /\ RwIdle /\ UpIdle /\ FoIdle

NextUL ==
    \/ \E o \in Owners, reload \in BOOLEAN, budget \in Budgets :
           SetUpgradeLockIntent(o, reload, budget) /\ UNCHANGED notUl
    \/ \E reload \in BOOLEAN, budget \in Budgets :
           CommitUpgrade(reload, budget) /\ UNCHANGED notUl
    \/ \E reload \in BOOLEAN, budget \in Budgets :
           RollbackUpgrade(reload, budget) /\ UNCHANGED notUl
    \/ UlTick /\ UNCHANGED notUl

SpecUL == InitUL /\ [][NextUL]_vars

InitCS == CsIdle /\ LcIdle /\ TwIdle /\ MtIdle /\ LsIdle /\ UlIdle /\ CcIdle /\ SyIdle /\ PsIdle /\ UsIdle /\ AmIdle /\ IxIdle /\ RwIdle /\ UpIdle /\ FoIdle

NextCS ==
    \/ \E id \in CachedIDs, data \in Datas, ok \in BOOLEAN :
           PutBlob(id, data, ok) /\ UNCHANGED notCs
    \/ \E id \in CachedIDs, offset \in Offsets, length \in Lengths :
           GetBlob(id, offset, length) /\ UNCHANGED notCs
    \/ \E id \in CachedIDs, ok \in BOOLEAN :
           DeleteBlob(id, ok) /\ UNCHANGED notCs
    \/ \E id \in CachedIDs : BaseDeleteBlob(id) /\ UNCHANGED notCs
    \/ \E prefix \in ListedPrefixes : ListBlobs(prefix) /\ UNCHANGED notCs

SpecCS == InitCS /\ [][NextCS]_vars

InitCC == CcIdle /\ LcIdle /\ TwIdle /\ MtIdle /\ LsIdle /\ UlIdle /\ CsIdle /\ SyIdle /\ PsIdle /\ UsIdle /\ AmIdle /\ IxIdle /\ RwIdle /\ UpIdle /\ FoIdle

NextCC ==
    \/ \E g \in CcGoroutines, data \in PutDatas : CcPutBlob(g, data) /\ UNCHANGED notCc
    \/ \E g \in CcGoroutines : CcDeleteBlob(g) /\ UNCHANGED notCc
    \/ \E g \in CcGoroutines : CcGetBlob(g) /\ UNCHANGED notCc
    \/ \E g \in CcGoroutines : CcCacheStep(g) /\ UNCHANGED notCc
    \/ \E g \in CcGoroutines : CcBaseStep(g) /\ UNCHANGED notCc

SpecCC == InitCC /\ [][NextCC]_vars

InitSY == SyInit /\ LcIdle /\ TwIdle /\ MtIdle /\ LsIdle /\ UlIdle /\ CsIdle /\ CcIdle /\ PsIdle /\ UsIdle /\ AmIdle /\ IxIdle /\ RwIdle /\ UpIdle /\ FoIdle

NextSY ==
    \/ SyStart /\ UNCHANGED notSy
    \/ \E w \in SyWorkers : SyReceive(w) /\ UNCHANGED notSy
    \/ SyClose /\ UNCHANGED notSy
    \/ \E w \in SyWorkers : SyCopyBlob(w) /\ UNCHANGED notSy
    \/ \E w \in SyWorkers : SyCopyDone(w) /\ UNCHANGED notSy
    \/ \E w \in SyWorkers : SyDeleteBlob(w) /\ UNCHANGED notSy
    \/ \E w \in SyWorkers : SyWorkerDone(w) /\ UNCHANGED notSy
    \/ SyWait /\ UNCHANGED notSy

SpecSY == InitSY /\ [][NextSY]_vars

InitPS == PsIdle /\ LcIdle /\ TwIdle /\ MtIdle /\ LsIdle /\ UlIdle /\ CsIdle /\ CcIdle /\ SyIdle /\ UsIdle /\ AmIdle /\ IxIdle /\ RwIdle /\ UpIdle /\ FoIdle

NextPS ==
    \/ \E id \in PsIDs, data \in PsDatas : PsPutBlob(id, data) /\ UNCHANGED notPs
    \/ \E id \in PsIDs, offset \in PsOffsets, length \in PsLengths :
           PsGetBlob(id, offset, length) /\ UNCHANGED notPs
    \/ \E id \in PsIDs : PsDeleteBlob(id) /\ UNCHANGED notPs
    \/ PsClose /\ UNCHANGED notPs
    \/ PsReopen /\ UNCHANGED notPs

SpecPS == InitPS /\ [][NextPS]_vars

InitUS == UsInit /\ LcIdle /\ TwIdle /\ MtIdle /\ LsIdle /\ UlIdle /\ CsIdle /\ CcIdle /\ SyIdle /\ PsIdle /\ AmIdle /\ IxIdle /\ RwIdle /\ UpIdle /\ FoIdle

NextUS ==
    \/ \E name \in Usernames \cup {InvalidUsername}, ok \in BOOLEAN :
           UsSetUserProfile(name, ok) /\ UNCHANGED notUs
    \/ \E ok \in BOOLEAN : UsPutManifest(ok) /\ UNCHANGED notUs
    \/ \E id \in 1..(Cardinality(PreExisting) + MaxUsCalls), ok \in BOOLEAN :
           UsDeleteManifest(id, ok) /\ UNCHANGED notUs
    \/ UsReturn /\ UNCHANGED notUs
    \/ \E name \in Usernames : UsDeleteUserProfile(name) /\ UNCHANGED notUs

SpecUS == InitUS /\ [][NextUS]_vars

InitAM == AmInit /\ LcIdle /\ TwIdle /\ MtIdle /\ LsIdle /\ UlIdle /\ CsIdle /\ CcIdle /\ SyIdle /\ PsIdle /\ UsIdle /\ IxIdle /\ RwIdle /\ UpIdle /\ FoIdle

NextAM ==
    \/ AmAdvance /\ UNCHANGED notAm
    \/ AmRun(ModeNone, {}) /\ UNCHANGED notAm
    \/ (\E F \in {{}, amBroken} : AmRun(ModeQuick, F)) /\ UNCHANGED notAm
    \/ (\E F \in {{}, amBroken} : AmRun(ModeFull, F)) /\ UNCHANGED notAm

SpecAM == InitAM /\ [][NextAM]_vars

InitIX == IxIdle /\ LcIdle /\ TwIdle /\ MtIdle /\ LsIdle /\ UlIdle /\ CsIdle /\ CcIdle /\ SyIdle /\ PsIdle /\ UsIdle /\ AmIdle /\ RwIdle /\ UpIdle /\ FoIdle

NextIX ==
    \/ (\E s \in IxSessions, e \in IxEntry : IxLoad(s, e)) /\ UNCHANGED notIx
    \/ (\E s \in IxSessions : IxReopen(s)) /\ UNCHANGED notIx

SpecIX == InitIX /\ [][NextIX]_vars

InitRW == MtDeletedInit /\ RwIdle /\ LcIdle /\ TwIdle /\ LsIdle /\ UlIdle /\ CsIdle /\ CcIdle /\ SyIdle /\ PsIdle /\ UsIdle /\ AmIdle /\ IxIdle /\ UpIdle /\ FoIdle

NextRW ==
    \/ (\E d \in Advances : MtAdvance(d)) /\ UNCHANGED notMt
    \/ MtSnapshotGC /\ UNCHANGED notMt
    \/ (\E S \in SUBSET Contents : RwStart(S)) /\ UNCHANGED notMtRw
    \/ (\E item \in rwTodo : RwWorker(item)) /\ UNCHANGED notMtRw
    \/ RwDone /\ UNCHANGED notMtRw
    \/ MtDropDeleted /\ UNCHANGED notMt
    \/ MtDeleteOrphaned /\ UNCHANGED notMt

SpecRW == InitRW /\ [][NextRW]_vars

InitUP == UpInit /\ LcIdle /\ TwIdle /\ MtIdle /\ LsIdle /\ UlIdle /\ CsIdle /\ CcIdle /\ SyIdle /\ PsIdle /\ UsIdle /\ AmIdle /\ IxIdle /\ RwIdle /\ FoIdle

NextUP ==
    \/ \E p \in UpCallers, ok \in BOOLEAN : UpFindManifests(p, ok) /\ UNCHANGED notUp
    \/ \E p \in UpCallers, ok \in BOOLEAN : UpPutManifest(p, ok) /\ UNCHANGED notUp
    \/ \E p \in UpCallers, id \in 1..MaxUpID, ok \in BOOLEAN :
           UpDeleteManifest(p, id, ok) /\ UNCHANGED notUp
    \/ \E p \in UpCallers : UpReturn(p) /\ UNCHANGED notUp

SpecUP == InitUP /\ [][NextUP]_vars

InitFO == FoInit /\ LcIdle /\ TwIdle /\ MtIdle /\ LsIdle /\ UlIdle /\ CsIdle /\ CcIdle /\ SyIdle /\ PsIdle /\ UsIdle /\ AmIdle /\ IxIdle /\ RwIdle /\ UpIdle

NextFO ==
    \/ \E ok \in BOOLEAN : BeginDirectory(FoDir, ok) /\ UNCHANGED notFo
    \/ \E path \in FoFiles, data \in FoDatas, okWrite \in BOOLEAN, okAttr \in BOOLEAN :
           WriteFile(path, data, okWrite, okAttr) /\ UNCHANGED notFo
    \/ \E okAttr \in BOOLEAN : FinishDirectory(FoDir, okAttr) /\ UNCHANGED notFo

SpecFO == InitFO /\ [][NextFO]_vars

\* the test triggers maintenance every 30 minutes without end, and no task fails
InitAMFair == InitAM /\ amBroken = {}

SpecAMFair == InitAMFair /\ [][NextAM]_vars /\ WF_vars(NextAM)

Spec == SpecLC

----------------------------------------------------------------------------
(* Properties of the list cache                                            *)

\* The ListBlobs call of wrapper w, whatever step it has reached.
LcCallOf(w) == IF lcCall[w].pc = "save" THEN lcCall[w].call ELSE lcCall[w]

InListBlobs(w) == lcCall[w].pc \in {"listbase", "stamp", "save", "dispatch"}

\* C1: once a PutBlob or DeleteBlob of an id under a cached prefix has
\* returned, a ListBlobs of that prefix that starts afterwards, through any
\* wrapper on the same cache storage, reports the id when it was put and
\* does not report it when it was deleted (unless the id is updated again
\* while the ListBlobs runs).
C1_ListReflectsReturnedUpdate ==
    \A w \in Wrappers :
        (lcCall[w].pc = "dispatch" /\ lcCall[w].cachedPath) =>
            /\ \A id \in lcCall[w].mustHave :
                    lcApplied[id] = lcCall[w].startApplied[id] => id \in lcCall[w].blobs
            /\ \A id \in lcCall[w].mustNot :
                    lcApplied[id] = lcCall[w].startApplied[id] => id \notin lcCall[w].blobs

\* C2: a ListBlobs of a cached prefix that starts when every other call has
\* returned is never answered from a listing of the base storage that was
\* taken before a PutBlob under that prefix that had already returned.
C2_NoListingOlderThanReturnedPut ==
    \A w \in Wrappers :
        (lcCall[w].pc = "dispatch" /\ lcCall[w].cachedPath /\ lcCall[w].quiet) =>
            lcCall[w].asOf >= lcCall[w].needPut

\* C3, state part: a cached list is served only at a time strictly before
\* the time it was stamped plus the cache duration; a verified entry read at
\* or after that time is not served, and the listing returned instead was
\* taken from the base storage during the call.
C3_ServedOnlyBeforeExpiry ==
    \A w \in Wrappers :
        (InListBlobs(w) /\ LcCallOf(w).cachedPath) =>
            LET c == LcCallOf(w) IN
            /\ c.hit => (c.seen.present /\ c.readAt < c.seen.data.stamped + CacheDuration)
            /\ ( /\ c.seen.present
                 /\ HmacVerifies(c.seen, HmacSecret)
                 /\ c.readAt >= c.seen.data.stamped + CacheDuration ) => ~c.hit
            /\ (~c.hit /\ lcCall[w].pc \in {"stamp", "save", "dispatch"}) => c.asOf >= c.startSeq

\* C3, step part: a ListBlobs that missed the cache reaches its callbacks
\* only by the step that stores the new listing, stamped during this call,
\* under the prefix.
C3_MissReplacesEntry ==
    \A w \in Wrappers :
        ( /\ InListBlobs(w)
          /\ lcCall[w].pc # "dispatch"
          /\ lcCall'[w].pc = "dispatch" ) =>
            LET c == lcCall'[w] IN
            /\ lcCache'[c.prefix].present
            /\ HmacVerifies(lcCache'[c.prefix], HmacSecret)
            /\ lcCache'[c.prefix].data.blobs = c.blobs
            /\ lcCache'[c.prefix].data.stamped >= c.readAt
            /\ lcCache'[c.prefix].data.expireAfter
                    = lcCache'[c.prefix].data.stamped + CacheDuration

----------------------------------------------------------------------------
(* Properties of InParallel                                                *)

SeqRange(q) == { q[i] : i \in 1..Len(q) }

RECURSIVE TwDescendants(_)
\* An item and everything below it in the tree.
TwDescendants(it) ==
    {it} \cup UNION { TwDescendants(c) : c \in SeqRange(TwChildren(it)) }

\* Every item InParallel has to process: the initial items and all children
\* reported for them.
TwAllItems == UNION { TwDescendants(it) : it \in SeqRange(twItems) }

TwReturned == twPc[Caller] = "returned"

\* The goroutines that are inside an ItemFunc invocation, or about to enter
\* one they have committed to.
TwExecuting == { g \in Goroutines : twStack[g] # <<>> }

\* The goroutines on which the body of an ItemFunc invocation is running.
TwRunningBody ==
    { g \in Goroutines : \E i \in 1..Len(twStack[g]) : twStack[g][i].next >= 1 }

C5_FailureIsReturned ==
    twFailed # {} =>
        IF TwReturned
        THEN twResult # {} /\ twResult \subseteq twFailed
        ELSE ENABLED NextTW

\* C6: when InParallel has returned, with nil or with an error, every worker
\* goroutine it started has exited.
C6_NoWorkerOutlivesCall ==
    TwReturned => \A w \in Workers : Started(w) => twPc[w] = "exited"

\* C7: a worker's dequeueDisc reports that no work remains only when the
\* queue is empty and no discovery is active; while an ItemFunc invocation
\* is in progress or the caller is still submitting initial items, a worker
\* that finds the queue empty blocks on the condition instead.
C7_DequeueStep ==
    \A w \in Workers :
        /\ (twPc[w] = "dequeue" /\ twPc'[w] = "exited") =>
                /\ twQueued = 0 /\ twCh = <<>> /\ twActive = 0
                /\ TwExecuting = {}
                /\ twPc[Caller] # "submit"
        /\ ( /\ twPc[w] = "dequeue" /\ twPc'[w] # "dequeue"
             /\ twQueued = 0
             /\ (TwExecuting # {} \/ twPc[Caller] = "submit") ) =>
                twPc'[w] = "waiting"

C7_NoWorkOnlyWhenIdle == [][C7_DequeueStep]_vars

\* A worker blocks on the condition while another goroutine is inside
\* ItemFunc for an item that has children to report.
C7_Witness ==
    \E w \in Workers, g \in Goroutines :
        /\ twPc[w] = "waiting"
        /\ twStack[g] # <<>>
        /\ TwChildren(twStack[g][1].it) # <<>>
        /\ twQueued = 0

\* C8: ItemFunc never executes on more goroutines than the degree of
\* parallelism.
C8_AtMostParallelExecuting == Cardinality(TwRunningBody) <= twPar

----------------------------------------------------------------------------
(* Properties of full maintenance                                          *)

\* C9: with SafetyFull and any schedule of full maintenance runs, once a
\* run has ended there is no content that was dropped from the index while
\* the pack blob that stored it still exists.
C9_NoDropWhilePackExists ==
    mtPc = "idle" =>
        \A c \in Contents :
            (~mtIndex[c].present /\ mtDroppedFrom[c] # NoPack)
                => ~mtBlobs[mtDroppedFrom[c]].exists

\* C10: a client whose in-memory index was loaded before maintenance ran and
\* was never refreshed does not get BlobNotFound when it reads a content its
\* index lists as live.
C10_StaleClientNeverBlobNotFound ==
    \A c \in Contents :
        (mtClient[c].present /\ ~mtClient[c].deleted /\ mtRead.content = c)
            => mtRead.result # "BlobNotFound"

\* C11: a tombstoned content leaves the index only in a step in which the
\* history holds at least two successful GC runs, the two newest are at
\* least MarginBetweenSnapshotGC apart, and the tombstone is no later than
\* the start of the previous GC run less DropContentFromIndexExtraMargin.
C11_DropStep ==
    \A c \in Contents :
        (mtIndex[c].present /\ ~mtIndex'[c].present) =>
            /\ mtIndex[c].deleted
            /\ Len(mtGcRuns) >= 2
            /\ mtGcRuns[1] - mtGcRuns[2] >= MarginBetweenSnapshotGC
            /\ mtIndex[c].ts <= mtGcRuns[2] - DropContentFromIndexExtraMargin

C12_DeleteStep ==
    \A p \in Packs :
        (mtBlobs[p].exists /\ ~mtBlobs'[p].exists) =>
            /\ mtNow - mtBlobs[p].ts >= BlobDeleteMinAge
            /\ p \notin Referenced(mtIndex)

C12_DeleteOnlyOldUnreferenced == [][C12_DeleteStep]_vars

\* Delete-orphaned-blobs has just deleted a pack blob.
C12_Witness ==
    /\ mtPc = "idle"
    /\ \E p \in Packs : p < mtNextPack /\ ~mtBlobs[p].exists

\* C13: a content that a live snapshot manifest refers to is never
\* tombstoned, whatever the interleaving of snapshots, flushes and
\* maintenance runs.
C13_LiveNeverTombstoned ==
    \A c \in mtLive : mtIndex[c].present => ~mtIndex[c].deleted

\* C13, amended: for a content whose snapshot manifest is visible when a step
\* starts, no step writes a tombstone, and a snapshot GC run leaves none: a
\* tombstone found after the step was there before it and the step is not
\* the snapshot GC, which undeletes such a content.
C13_LiveStep ==
    \A c \in mtLive :
        (mtIndex'[c].present /\ mtIndex'[c].deleted) =>
            /\ mtIndex[c].present
            /\ mtIndex[c].deleted
            /\ mtRuns' = mtRuns

C13_GCSparesVisibleSnapshots == [][C13_LiveStep]_vars

\* A snapshot reused a content that the snapshot GC tombstoned before the
\* manifest was flushed, and the next snapshot GC has undeleted it: the
\* entry is as new as the run and still points at the pack written at 0h.
C13_Witness ==
    /\ mtPc = "rewrite"
    /\ \E c \in mtLive :
          /\ mtIndex[c].present
          /\ ~mtIndex[c].deleted
          /\ mtIndex[c].ts = mtNow
          /\ mtNow > 0
          /\ mtBlobs[mtIndex[c].pack].ts = 0

----------------------------------------------------------------------------
(* Properties of the maintenance lease                                     *)

\* The processes that hold the lease: they run the maintenance tasks under a
\* lease manifest of their own that has not expired.
LsHolders == { p \in Procs : lsPc[p] = "running" /\ Unexpired(p) }

----------------------------------------------------------------------------
(* Properties of the upgrade lock                                          *)

Restored == ulLast.op = "rollback" /\ ulLast.from # NoOwner

\* C15 as stated: when more than one backup blob exists, RollbackUpgrade
\* restores the format blob from the backup with the latest timestamp.
C15_RestoresMostRecent ==
    (Restored /\ Cardinality(DOMAIN ulLast.pre) > 1)
        => \A o \in DOMAIN ulLast.pre : ulLast.pre[o].ts <= ulLast.pre[ulLast.from].ts

\* C15 as the code has it: when more than one backup blob exists,
\* RollbackUpgrade restores the format blob from a backup with the earliest
\* timestamp, and a successful rollback leaves none of the backups behind.
C15_RestoresOldest ==
    (Restored /\ Cardinality(DOMAIN ulLast.pre) > 1)
        => /\ \A o \in DOMAIN ulLast.pre : ulLast.pre[ulLast.from].ts <= ulLast.pre[o].ts
           /\ ulFormat = ulLast.pre[ulLast.from].data
           /\ ~ulLast.err => DOMAIN ulBackups = {}

C15_Witness ==
    /\ Restored
    /\ ~ulLast.err
    /\ Cardinality(DOMAIN ulLast.pre) > 1
    /\ \E o \in DOMAIN ulLast.pre : ulLast.pre[ulLast.from].ts < ulLast.pre[o].ts

----------------------------------------------------------------------------
(* Properties of the caching wrapper                                       *)

PutReturned(action) ==
    /\ csOps' = csOps + 1
    /\ csLast'.op = "put"
    /\ csLast'.err = NoError
    /\ PrefixBasedActionFunc(csLast'.id) = action

C18_PutStep ==
    /\ PutReturned("Ignore")
          => /\ csCache' = csCache
             /\ csBase' = csBase
    /\ PutReturned("Cache")
          => /\ csLast'.id \in DOMAIN csCache'
             /\ csCache'[csLast'.id] = csLast'.data
             /\ csLast'.id \in DOMAIN csBase'
             /\ csBase'[csLast'.id] = csLast'.data
    /\ PutReturned("PassThrough")
          => /\ csLast'.id \in DOMAIN csBase'
             /\ csBase'[csLast'.id] = csLast'.data
             /\ csLast'.id \notin DOMAIN csCache'
             /\ csCache' = csCache

\* C18: a PutBlob through the wrapper that returns no error leaves an
\* ignored blob out of the memory cache and of the base storage, stores a
\* cached blob in both, and stores a pass-through blob in the base storage
\* only.
C18_PutFollowsAction == [][C18_PutStep]_vars

C18_Witness ==
    /\ csLast.op = "put"
    /\ csLast.err = NoError
    /\ PrefixBasedActionFunc(csLast.id) = "Cache"
    /\ csLast.data # <<>>
    /\ csCache[csLast.id] = csLast.data
    /\ csBase[csLast.id] = csLast.data
    /\ <<"other", "1">> \in DOMAIN csBase
    /\ <<"ignore", "1">> \notin DOMAIN csBase

\* C19: for a blob held in the memory cache, GetBlob through the wrapper
\* returns what the blob get contract asks for, which is what the base
\* storage returns for the same data and range: the bytes from offset to the
\* end for length -1, data[offset:offset+length] for a range inside the
\* data, InvalidRange for a negative offset or a range past the end.
C19_CachedGetFollowsContract ==
    (csLast.op = "get" /\ csLast.hit)
        => Result(csLast.err, csLast.out)
              = ContractGet(csLast.data, csLast.offset, csLast.length)

\* C20: after a DeleteBlob through the wrapper that returned no error the
\* blob is in neither store, and GetBlob through the wrapper and on the base
\* storage both return NotFound.
C20_DeletedEverywhere ==
    (csLast.op = "delete" /\ csLast.err = NoError)
        => /\ csLast.id \notin DOMAIN csCache
           /\ csLast.id \notin DOMAIN csBase
           /\ GetBlobResult(csCache, csBase, csLast.id, 0, -1).err = ErrBlobNotFound
           /\ BaseGetBlob(csBase, csLast.id, 0, -1).err = ErrBlobNotFound

C20_Witness ==
    /\ csLast.op = "delete"
    /\ csLast.err = NoError
    /\ PrefixBasedActionFunc(csLast.id) = "Cache"
    /\ csOps = MaxCsOps
    /\ GetBlobResult(csCache, csBase, csLast.id, 0, -1).err = ErrBlobNotFound

Times(id, calls) == Cardinality({ i \in 1..Len(calls) : calls[i] = id })

\* C21: ListBlobs through the wrapper calls the callback exactly once for
\* every blob id with the requested prefix that is in the memory cache or in
\* the base storage, ids that are in both included, and for no other id.
C21_ListedExactlyOnce ==
    csLast.op = "list"
        => \A id \in CachedIDs :
              Times(id, csLast.out) =
                 IF HasPrefix(id, csLast.id) /\ id \in (DOMAIN csCache) \cup (DOMAIN csBase)
                 THEN 1
                 ELSE 0

C21_Witness ==
    /\ csLast.op = "list"
    /\ csLast.id = <<>>
    /\ <<"cache", "1">> \in (DOMAIN csCache) \cap (DOMAIN csBase)
    /\ <<"other", "1">> \in DOMAIN csBase
    /\ Len(csLast.out) = 2

----------------------------------------------------------------------------
(* Properties of the caching wrapper under concurrent calls                *)

AllReturned == \A g \in CcGoroutines : ccPc[g] = "idle"

\* C22: once every concurrent PutBlob, DeleteBlob and GetBlob call for a
\* blob id has returned, the memory cache and the base storage agree on the
\* id: both hold the bytes of the same put, or neither holds the blob.
C22_CacheAgreesWithBase == AllReturned => ccCache = ccBase

----------------------------------------------------------------------------
(* Properties of repository sync-to                                        *)

\* C23: when sync-to runs with --times and the destination's SetTime fails
\* with SetTimeUnsupported, every blob found in the source counts as copied,
\* the sync goes through all blobs and returns success, and the notice is
\* logged once at most.
C23_SetTimeUnsupportedTolerated ==
    (syResult \in {"ok", "error"} /\ ~syCfg.dryRun /\ syCfg.par > 0
       /\ syCfg.times /\ ~syCfg.supported)
        => /\ syResult = "ok"
           /\ syTodo = <<>>
           /\ syCounted = SyBlobs
           /\ syNotices <= 1

----------------------------------------------------------------------------
(* Properties of the packed local cache storage                            *)

\* C24: GetBlob on the packed cache with length -1 returns exactly the bytes
\* of the blob from offset to its end, and a request with a negative offset
\* or with offset or offset+length past the end of the blob fails with
\* InvalidRange and returns no data.
C24_PackedGetFollowsContract ==
    (psLast.op = "get" /\ psLast.found)
        => LET want == ContractGet(psPut[psLast.id], psLast.offset, psLast.length)
           IN  (psLast.length = -1 \/ want.err = ErrInvalidRange)
                  => Result(psLast.err, psLast.out) = want

\* C25: DeleteBlob on the packed cache for an id that is not present returns
\* the NotFound error.
C25_DeleteMissingIsNotFound ==
    (psLast.op = "delete" /\ ~psLast.found) => psLast.err = ErrBlobNotFound

\* C26: after a packed cache is closed and reopened on the same directory,
\* every blob put and not deleted before the close is returned by GetBlob
\* with the same bytes, and the index, which ListBlobs reports, holds those
\* ids and no others.
C26_ReopenRestoresBlobs ==
    psLast.op = "open"
        => /\ \A id \in DOMAIN psBefore :
                 PackedGetBlob(psIndex, psPacks, id, 0, -1) = Result(NoError, psBefore[id])
           /\ DOMAIN psIndex = DOMAIN psBefore

----------------------------------------------------------------------------
(* Properties of the user profiles                                         *)

ProfilesOf(user) == { m \in usManifests : m.user = user }

\* C27: during a SetUserProfile call for a username that has a profile there
\* is at every point a manifest for that username, and when the call has
\* returned success exactly one manifest with type user and that username
\* exists.
C27_ProfileNeverMissing ==
    /\ (usResult \in {"running", "ok", "error"} /\ usHad) => ProfilesOf(usUser) # {}
    /\ (usResult = "ok" /\ usHad) => Cardinality(ProfilesOf(usUser)) = 1

C27_Witness ==
    /\ usResult = "ok"
    /\ usHad
    /\ usCalls = 1
    /\ PreExisting \cap usManifests = { UserManifest(3, "bob@host") }
    /\ ProfilesOf("alice@host") = { UserManifest(usNew, "alice@host") }

----------------------------------------------------------------------------
(* Properties of auto maintenance                                          *)

\* every task that has ever run has a last run no older than 48 hours
AmFresh ==
    \A t \in AmTasks : amRuns[t] # AmNoRun => amNow - amRuns[t] <= maxTimeSinceLastRun

AmAllRan == \A t \in AmTasks : amRuns[t] # AmNoRun

RunTasks(mode) ==
    IF RunsSnapshotGC(mode)
    THEN {TaskSnapshotGarbageCollection} \cup EngineTasks(mode)
    ELSE EngineTasks(mode)

\* C29: when one task of a maintenance run fails, the other tasks of the run
\* are still executed: a run that returns an error has executed every task
\* of its mode.
C29_OtherTasksStillRun == amResult # NoError => amExecuted = RunTasks(amMode)

----------------------------------------------------------------------------
(* Properties of the merged index                                          *)

\* C30: two sessions that have observed the same set of entries for a
\* content id, in any order, hold the same merged entry: one of the
\* entries observed with the largest timestamp_seconds, and a deleted one
\* when an entry with that timestamp is deleted.
C30_MergeIsDeterministic ==
    /\ \A s, t \in IxSessions : ixSeen[s] = ixSeen[t] => ixBest[s] = ixBest[t]
    /\ \A s \in IxSessions : ixSeen[s] # {} =>
          /\ ixBest[s] \in ixSeen[s]
          /\ \A e \in ixSeen[s] :
                /\ e.timestamp_seconds <= ixBest[s].timestamp_seconds
                /\ (e.timestamp_seconds = ixBest[s].timestamp_seconds /\ e.deleted)
                       => ixBest[s].deleted

\* the two sessions observed the same two entries in opposite orders, the
\* entries tie on the timestamp and one of them is deleted
C30_Witness ==
    /\ ixSeen["s1"] = ixSeen["s2"]
    /\ Cardinality(ixSeen["s1"]) = 2
    /\ ixFirst["s1"] # ixFirst["s2"]
    /\ \A e \in ixSeen["s1"] : e.timestamp_seconds = ixBest["s1"].timestamp_seconds
    /\ \E e \in ixSeen["s1"] : ~e.deleted
    /\ ixBest["s1"].deleted

(* Properties of maintenance after a deletion                              *)

\* two full maintenance runs have ended, both started more than the three
\* safety delays after the deletion at time 0
TwoFurtherCycles ==
    /\ mtPc = "idle"
    /\ Len(mtGcRuns) = 2
    /\ mtGcRuns[2] >= FastForward

Gone ==
    /\ ~mtBlobs[1].exists
    /\ ReadContent(mtIndex, "c1") = "ContentNotFound"

\* the tombstone was never moved to another pack by a content rewrite
NotRewritten ==
    IF mtIndex["c1"].present THEN mtIndex["c1"].pack = 1 ELSE mtDroppedFrom["c1"] = 1

----------------------------------------------------------------------------
(* Properties of the content rewrite workers                               *)

Verifiable(c) ==
    /\ mtIndex[c].present
    /\ mtBlobs[mtIndex[c].pack].exists

C33_Readable == \A c \in mtLive \cup mtPending : Verifiable(c)

\* the snapshot GC of a full maintenance run leaves no content of a flushed
\* snapshot marked deleted
C33_UndeleteStep ==
    (mtPc' = "rewrite" /\ mtPc # "rewrite")
        => \A c \in mtLive : mtIndex'[c].present /\ ~mtIndex'[c].deleted

SyStillInSource == SyBlobs \ syCfg.missing

\* C34: when sync-to without --dry-run returns success, every blob listed in
\* the source and still there is present in the destination, whatever the
\* copy parallelism.
C34_SuccessMeansCopied ==
    (syResult = NoError /\ ~syCfg.dryRun) => SyStillInSource \subseteq syDst

\* the same with at least one worker
C34_SuccessMeansCopiedWithWorkers ==
    (syResult = NoError /\ ~syCfg.dryRun /\ syCfg.par > 0)
        => SyStillInSource \subseteq syDst

\* C35: with --dry-run the destination holds the same blobs before and after
\* sync-to.
C35_DryRunLeavesDestination ==
    syCfg.dryRun => /\ syDst = DstBefore(syCfg.del)
                    /\ syDstFormat = syCfg.dstFormat

\* the same for the blobs other than the format blob
C35_DryRunLeavesOtherBlobs ==
    syCfg.dryRun => syDst = DstBefore(syCfg.del)

\* C36: when the destination has a format blob that differs from the
\* source's, sync-to fails with the incompatible data error and the
\* destination is as it was: nothing copied, nothing deleted.
C36_IncompatibleFailsFirst ==
    (syCfg.dstFormat = OtherFormatData /\ syResult # "start")
        => /\ syResult = "destination repository contains incompatible data"
           /\ syDst = DstBefore(syCfg.del)
           /\ syDstFormat = OtherFormatData
           /\ syTodo = [i \in SyBlobs |-> i]
           /\ syDelTodo = syCfg.del

\* sync-to with --delete has returned the incompatible data error and the
\* destination still holds the blob that is not in the source
C36_Witness ==
    /\ syCfg.dstFormat = OtherFormatData
    /\ syResult = "destination repository contains incompatible data"
    /\ ~syCfg.dryRun
    /\ syCfg.par > 0
    /\ syCfg.del > 0
    /\ DeleteID \in syDst

(* Properties of a failed PutBlob through the caching wrapper              *)

\* the last call was a PutBlob of a blob with this action that returned an error
PutFailed(action) ==
    /\ csLast.op = "put"
    /\ csLast.err # NoError
    /\ PrefixBasedActionFunc(csLast.id) = action

\* C37: when the base storage's PutBlob fails for a blob whose action is
\* Cache, the wrapper returns the error and the memory cache does not hold
\* the blob unless the base storage does.
C37_FailedPutNotCached ==
    PutFailed("Cache")
        => (csLast.id \in DOMAIN csCache => csLast.id \in DOMAIN csBase)

(* Properties of a failed SetUpgradeLockIntent                             *)

\* C38: when SetUpgradeLockIntent returns an error, the manager's in-memory
\* configuration has no upgrade lock and no raised format version that the
\* stored format blob does not carry.
C38_FailedSetLeavesConfig ==
    (ulLast.op = "set" /\ ulLast.err)
        => /\ ulConfig.lock # NoLock => ulFormat.lock = ulConfig.lock
           /\ ulConfig.version <= ulFormat.version

----------------------------------------------------------------------------
(* Properties of concurrent SetUserProfile calls                           *)

\* C39: when SetUserProfile calls of two callers for one username have both
\* returned success, exactly one user manifest for that username remains
\* and GetUserProfile returns the profile one of the two wrote.
C39_OneProfileAfterBoth ==
    (\A p \in UpCallers : upPc[p] = "ok")
        => /\ Cardinality(upManifests) = 1
           /\ GetUserProfile(upManifests) \in { upNew[p] : p \in UpCallers }

----------------------------------------------------------------------------
(* Properties of the restore output                                        *)

====
